---- MODULE Spec2Model ----
(***************************************************************************)
(* Model of the story (fixture) generator of the component highlighter     *)
(* plugin: src/src/utils/story-generator.ts, and of the host handler that  *)
(* calls it, src/src/component-highlighter-plugin.ts.                      *)
(*                                                                         *)
(* Text is a sequence of items.  An item is a 1-character string, or a     *)
(* lower-case keyword of several characters (import, export, from, ...)    *)
(* that stands for exactly these characters.  Identifiers the program      *)
(* computes with (story names, component names) are written character by   *)
(* character, so that charAt, slice, toUpperCase, \w+ and includes() are   *)
(* modelled by what they do to the characters.                             *)
(***************************************************************************)
EXTENDS Integers, Sequences, FiniteSets, TLC

VARIABLES
    npc,        \* name pipeline: "in" before generateStory's lines 49-52 ran, "out" after
    nameIn,     \* [explicit, props]: data.storyName and data.props of one call
    nameOut,    \* [raw, valid, twice, thrice]: the names computed from nameIn
    file,       \* the story file on disk: [exists, text]
    exported,   \* the story names exported by the file's text, in file order
    reqs,       \* number of create-story requests the host has handled
    last,       \* the last request and generateStory's result for it
    options,    \* the plugin's options: [storiesDir]
    fpc,        \* a function applied on its own: "in" before the call, "out" after
    args,       \* the arguments of that call
    result,     \* what the call returned
    runtime,    \* the browser runtime: its instance registry and one tracked boundary
    host,       \* the dev server: create-story requests in progress and notifications
    client      \* the overlay in the page: dock, highlight modes, selection, context menu

vars == <<npc, nameIn, nameOut, file, exported, reqs, last, options, fpc, args, result,
           runtime, host, client>>

----------------------------------------------------------------------------
(* Bounds of the model *)

MaxNameLen == 3      \* longest requested story name that is enumerated
MaxReqs == 2         \* create-story requests per behaviour

----------------------------------------------------------------------------
(* Characters *)

LowerSeq == <<"a","b","c","d","e","f","g","h","i","j","k","l","m",
              "n","o","p","q","r","s","t","u","v","w","x","y","z">>
UpperSeq == <<"A","B","C","D","E","F","G","H","I","J","K","L","M",
              "N","O","P","Q","R","S","T","U","V","W","X","Y","Z">>
DigitSeq == <<"0","1","2","3","4","5","6","7","8","9">>

Range(s) == {s[i] : i \in DOMAIN s}

Lower == Range(LowerSeq)
Upper == Range(UpperSeq)
Digit == Range(DigitSeq)

\* keywords and property keys: items of several word characters
Keywords == {"import", "export", "const", "from", "fn", "type", "typeof",
             "default", "meta", "args", "component", "react", "div", "styled",
             "storybook", "test", "vite", "variant", "size", "mode", "status",
             "kind", "color", "intent", "appearance", "label", "disabled",
             "children", "onClick", "icon", "expect", "async", "function",
             "doThing", "className", "stories", "tsx", "ts", "jsx", "js"}

IsSpace(c) == c \in {" ", "\n", "\t"}
IsAlnum(c) == c \in Lower \cup Upper \cup Digit \cup Keywords
IsWordCh(c) == IsAlnum(c) \/ c = "_"
IsUpperCh(c) == c \in Upper

\* String.prototype.toUpperCase / toLowerCase on one character
ToUpper(c) == IF c \in Lower
              THEN UpperSeq[CHOOSE i \in DOMAIN LowerSeq : LowerSeq[i] = c]
              ELSE c
ToLower(c) == IF c \in Upper
              THEN LowerSeq[CHOOSE i \in DOMAIN UpperSeq : UpperSeq[i] = c]
              ELSE c

MapSeq(s, Op(_)) == [i \in DOMAIN s |-> Op(s[i])]
UpperStr(s) == [i \in DOMAIN s |-> ToUpper(s[i])]
LowerStr(s) == [i \in DOMAIN s |-> ToLower(s[i])]

\* s.slice(from) for 0-based from (items from+1 .. Len)
SliceFrom(s, from) == IF from >= Len(s) THEN <<>> ELSE SubSeq(s, from + 1, Len(s))
\* s.slice(from, to), 0-based, to exclusive
Slice(s, from, to) == IF to <= from THEN <<>> ELSE SubSeq(s, from + 1, to)
\* s.charAt(0): the first character, or the empty string
CharAt0(s) == IF s = <<>> THEN <<>> ELSE <<s[1]>>

RECURSIVE Flatten(_)
Flatten(ss) == IF ss = <<>> THEN <<>> ELSE Head(ss) \o Flatten(Tail(ss))

SeqsUpTo(S, n) == UNION {[1..k -> S] : k \in 0..n}

\* literal texts
DefaultName == <<"D","e","f","a","u","l","t">>
SnapshotName == <<"S","n","a","p","s","h","o","t">>

----------------------------------------------------------------------------
(* Serialized props: a sequence of entries [key, val] in insertion order;  *)
(* a value is a record [t, s, b, refs, kids] tagged by t.                   *)

StrV(s)  == [t |-> "str",  s |-> s,    b |-> FALSE, refs |-> <<>>, kids |-> <<>>]
BoolV(b) == [t |-> "bool", s |-> <<>>, b |-> b,     refs |-> <<>>, kids |-> <<>>]
NumV(d)  == [t |-> "num",  s |-> <<d>>, b |-> FALSE, refs |-> <<>>, kids |-> <<>>]
FnV      == [t |-> "fn",   s |-> <<>>, b |-> FALSE, refs |-> <<>>, kids |-> <<>>]
JsxV(src, refs) == [t |-> "jsx", s |-> src, b |-> FALSE, refs |-> refs, kids |-> <<>>]
ObjV(kids) == [t |-> "obj", s |-> <<>>, b |-> FALSE, refs |-> <<>>, kids |-> kids]

Entry(k, v) == [key |-> k, val |-> v]

\* propName in props
HasKey(props, k) == \E i \in DOMAIN props : props[i].key = k
\* props[propName]
PropVal(props, k) == props[CHOOSE i \in DOMAIN props : props[i].key = k].val

----------------------------------------------------------------------------
(* Strings *)

\* t.startsWith(p, i - 1): p occurs in t at item i
MatchAt(t, i, p) ==
    /\ i >= 1
    /\ i + Len(p) - 1 <= Len(t)
    /\ \A k \in DOMAIN p : t[i + k - 1] = p[k]

\* t.includes(p)
Includes(t, p) == \E i \in 1..(Len(t) + 1) : MatchAt(t, i, p)

\* t.indexOf(p) + 1, for a p that occurs
IndexOf(t, p) == CHOOSE i \in 1..(Len(t) + 1) :
                    MatchAt(t, i, p) /\ \A j \in 1..(i - 1) : ~ MatchAt(t, j, p)

StartsWith(t, p) == MatchAt(t, 1, p)
EndsWith(t, p) == Len(p) <= Len(t) /\ MatchAt(t, Len(t) - Len(p) + 1, p)

\* t.slice(0, pos) + ins + t.slice(pos), pos counted from 0
InsertAt(t, pos, ins) == Slice(t, 0, pos) \o ins \o SliceFrom(t, pos)

\* t.trimEnd()
RECURSIVE TrimEnd(_)
TrimEnd(t) == IF t # <<>> /\ IsSpace(t[Len(t)]) THEN TrimEnd(SubSeq(t, 1, Len(t) - 1)) ELSE t

RECURSIVE TrimStart(_)
TrimStart(t) == IF t # <<>> /\ IsSpace(t[1]) THEN TrimStart(Tail(t)) ELSE t

\* t.trim()
Trim(t) == TrimStart(TrimEnd(t))

\* the first index >= i of t whose item is not whitespace (Len(t) + 1 if none): \s*
RECURSIVE SkipWs(_, _)
SkipWs(t, i) == IF i <= Len(t) /\ IsSpace(t[i]) THEN SkipWs(t, i + 1) ELSE i

\* the index after the maximal run of word characters that starts at i: \w*
RECURSIVE SkipWord(_, _)
SkipWord(t, i) == IF i <= Len(t) /\ IsWordCh(t[i]) THEN SkipWord(t, i + 1) ELSE i

\* the index after the maximal run of letters and digits that starts at i: [a-zA-Z0-9]*
RECURSIVE SkipAlnum(_, _)
SkipAlnum(t, i) == IF i <= Len(t) /\ IsAlnum(t[i]) THEN SkipAlnum(t, i + 1) ELSE i

\* ss.join(sep)
RECURSIVE Join(_, _)
Join(ss, sep) ==
    IF ss = <<>> THEN <<>>
    ELSE IF Len(ss) = 1 THEN ss[1]
    ELSE ss[1] \o sep \o Join(Tail(ss), sep)

\* t.split(sep) for a one-item separator, from item i on, after the piece cur
RECURSIVE SplitOn(_, _, _, _)
SplitOn(t, sep, i, cur) ==
    LET seps == {k \in i..Len(t) : t[k] = sep}
    IN  IF seps = {} THEN <<cur \o SubSeq(t, i, Len(t))>>
        ELSE LET k == CHOOSE k \in seps : \A j \in seps : k <= j
             IN  <<cur \o SubSeq(t, i, k - 1)>> \o SplitOn(t, sep, k + 1, <<>>)

\* String(n) for n >= 0
RECURSIVE Decimal(_)
Decimal(n) == IF n < 10 THEN <<DigitSeq[n + 1]>>
              ELSE Decimal(n \div 10) \o <<DigitSeq[(n % 10) + 1]>>

\* '  '.repeat(n)
RECURSIVE Indent(_)
Indent(n) == IF n <= 0 THEN <<>> ELSE <<" ", " ">> \o Indent(n - 1)

----------------------------------------------------------------------------
(* node:path on absolute, normalized POSIX paths *)

LastIndexOf(t, c) ==
    IF \E i \in DOMAIN t : t[i] = c
    THEN CHOOSE i \in DOMAIN t : t[i] = c /\ \A j \in DOMAIN t : t[j] = c => j <= i
    ELSE 0

\* path.dirname(p)
dirname(p) ==
    LET i == LastIndexOf(p, "/")
    IN  IF i = 0 THEN <<".">> ELSE IF i = 1 THEN <<"/">> ELSE SubSeq(p, 1, i - 1)

\* path.extname(p): from the last '.' of the last segment, unless it is its first item
extname(p) ==
    LET base == SliceFrom(p, LastIndexOf(p, "/"))
        i == LastIndexOf(base, ".")
    IN  IF i <= 1 THEN <<>> ELSE SliceFrom(base, i - 1)

\* path.basename(p, ext)
basename(p, ext) ==
    LET base == SliceFrom(p, LastIndexOf(p, "/"))
    IN  IF ext # <<>> /\ base # ext /\ EndsWith(base, ext)
        THEN SubSeq(base, 1, Len(base) - Len(ext))
        ELSE base

Segments(p) == SelectSeq(SplitOn(p, "/", 1, <<>>), LAMBDA s : s # <<>>)

RECURSIVE CommonPrefixLen(_, _)
CommonPrefixLen(a, b) ==
    IF a # <<>> /\ b # <<>> /\ Head(a) = Head(b)
    THEN 1 + CommonPrefixLen(Tail(a), Tail(b))
    ELSE 0

\* path.relative(from, to)
relative(from, to) ==
    LET f == Segments(from)
        t == Segments(to)
        n == CommonPrefixLen(f, t)
        ups == [i \in 1..(Len(f) - n) |-> <<".", ".">>]
    IN  Join(ups \o SliceFrom(t, n), <<"/">>)

\* path.join(dir, name) for a name without separators
pathJoin(dir, name) == IF dir = <<"/">> THEN dir \o name ELSE dir \o <<"/">> \o name

\* getRelativeImportPath (508-520)
getRelativeImportPath(fromDir, toFile) ==
    LET toDir == dirname(toFile)
        toFileName == basename(toFile, extname(toFile))
        rel == relative(fromDir, toDir)
        relativePath == IF rel = <<>> THEN <<".">>
                        ELSE IF ~ StartsWith(rel, <<".">>) THEN <<".", "/">> \o rel
                        ELSE rel
    IN  relativePath \o <<"/">> \o toFileName

----------------------------------------------------------------------------
(* story-generator.ts: story names *)

\* capitalizeFirst (733-735)
capitalizeFirst(str) == UpperStr(CharAt0(str)) \o SliceFrom(str, 1)

\* the list with size moved to the front
meaningfulPropsSizeFirst == <<"size", "variant", "type", "mode", "status", "kind">>

\* the list of generateStoryName (721)
meaningfulProps == <<"variant", "type", "size", "mode", "status", "kind">>

RECURSIVE generateStoryNameFrom(_, _)
generateStoryNameFrom(props, i) ==
    IF i > Len(meaningfulProps) THEN SnapshotName
    ELSE IF HasKey(props, meaningfulProps[i])
            /\ PropVal(props, meaningfulProps[i]).t = "str"
         THEN capitalizeFirst(PropVal(props, meaningfulProps[i]).s)
         ELSE generateStoryNameFrom(props, i + 1)

\* generateStoryName (719-731)
generateStoryName(props) == generateStoryNameFrom(props, 1)

\* name.replace(/[^a-zA-Z0-9\s]/g, '') (122)
StripSpecial(name) == SelectSeq(name, LAMBDA c : IsAlnum(c) \/ IsSpace(c))

\* str.split(/\s+/) (123): the pieces between maximal runs of whitespace,
\* empty pieces at the ends included
RECURSIVE SplitWs(_, _, _)
SplitWs(s, i, cur) ==
    IF i > Len(s) THEN <<cur>>
    ELSE IF IsSpace(s[i])
         THEN IF i > 1 /\ IsSpace(s[i - 1])
              THEN SplitWs(s, i + 1, cur)
              ELSE <<cur>> \o SplitWs(s, i + 1, <<>>)
         ELSE SplitWs(s, i + 1, Append(cur, s[i]))

\* a word starting at 0 instead of 1 in slice: the word's first letter twice
capitalizeWordSliceZero(word) == UpperStr(CharAt0(word)) \o LowerStr(SliceFrom(word, 0))

\* word.charAt(0).toUpperCase() + word.slice(1).toLowerCase() (124)
capitalizeWord(word) == UpperStr(CharAt0(word)) \o LowerStr(SliceFrom(word, 1))

\* toValidStoryName (119-127)
toValidStoryName(name) ==
    LET words == SplitWs(StripSpecial(name), 1, <<>>)
        joined == Flatten([i \in DOMAIN words |-> capitalizeWord(words[i])])
    IN  IF joined = <<>> THEN DefaultName ELSE joined

\* customStoryName || generateStoryName(props) (50)
rawStoryName(explicit, props) ==
    IF explicit # <<>> THEN explicit ELSE generateStoryName(props)

----------------------------------------------------------------------------
(* story-generator.ts: callback handlers inside JSX source *)

\* the item that stands for the template literal quote (U+0060)
Backquote == "backquote"
Quotes == {"\"", "'", Backquote}

Min(S) == CHOOSE i \in S : \A j \in S : i <= j

\* /(\w+)=\{/ on t.slice(pos): the starts of word runs, at or after item p, that
\* end right before "={"
PropStarts(t, p) ==
    {s \in p..Len(t) :
        /\ IsWordCh(t[s])
        /\ LET e == SkipWord(t, s)
           IN  e + 1 <= Len(t) /\ t[e] = "=" /\ t[e + 1] = "{"}

\* the brace matching loop (365-391, 446-472): the index of the closing brace of
\* the value whose opening brace is at item i when called with count 0, or 0
\* when the loop runs off the end of the text
RECURSIVE ScanBrace(_, _, _, _, _)
ScanBrace(t, i, count, inString, stringChar) ==
    IF i > Len(t) THEN 0
    ELSE LET char == t[i]
             prevChar == IF i > 1 THEN t[i - 1] ELSE ""
         IN  IF char \in Quotes /\ prevChar # "\\"
             THEN IF ~ inString THEN ScanBrace(t, i + 1, count, TRUE, char)
                  ELSE IF char = stringChar THEN ScanBrace(t, i + 1, count, FALSE, stringChar)
                  ELSE ScanBrace(t, i + 1, count, inString, stringChar)
             ELSE IF inString THEN ScanBrace(t, i + 1, count, inString, stringChar)
             ELSE IF char = "{" THEN ScanBrace(t, i + 1, count + 1, inString, stringChar)
             ELSE IF char = "}"
                  THEN IF count - 1 = 0 THEN i
                       ELSE ScanBrace(t, i + 1, count - 1, inString, stringChar)
             ELSE ScanBrace(t, i + 1, count, inString, stringChar)

\* the index of the first c at or after i, or 0
FirstAt(t, i, c) ==
    IF \E k \in i..Len(t) : t[k] = c THEN Min({k \in i..Len(t) : t[k] = c}) ELSE 0

\* \([^)]*\)\s*=> at item i of c
ArrowAt(c, i) ==
    /\ i <= Len(c) /\ c[i] = "("
    /\ LET close == FirstAt(c, i + 1, ")")
       IN  /\ close # 0
           /\ LET k == SkipWs(c, close + 1)
              IN  k + 1 <= Len(c) /\ c[k] = "=" /\ c[k + 1] = ">"

RECURSIVE SkipWordDot(_, _)
SkipWordDot(t, i) ==
    IF i <= Len(t) /\ (IsWordCh(t[i]) \/ t[i] = ".") THEN SkipWordDot(t, i + 1) ELSE i

\* functionPatterns.some(pattern => pattern.test(content)) (403-410, 484-491)
isFunctionHandler(content) ==
    \/ ArrowAt(content, 1)
    \/ content # <<>> /\ content[1] = "async" /\ ArrowAt(content, SkipWs(content, 2))
    \/ /\ content # <<>> /\ content[1] = "function"
       /\ LET k == SkipWs(content, 2) IN k <= Len(content) /\ content[k] = "("
    \/ LET e == SkipWordDot(content, 1)
       IN  e > 1 /\ e <= Len(content) /\ content[e] = "("
           /\ FirstAt(content, e + 1, ")") # 0

FnCall == <<"fn", "(", ")">>

\* hasFunctionHandlersInJSX (347-420), from item p on
RECURSIVE hasFunctionHandlersFrom(_, _)
hasFunctionHandlersFrom(t, p) ==
    IF p > Len(t) \/ PropStarts(t, p) = {} THEN FALSE
    ELSE LET propStart == Min(PropStarts(t, p))
             braceStart == SkipWord(t, propStart) + 1
             braceEnd == ScanBrace(t, braceStart, 0, FALSE, "")
         IN  IF braceEnd = 0 THEN hasFunctionHandlersFrom(t, braceStart + 1)
             ELSE IF isFunctionHandler(Trim(SubSeq(t, braceStart + 1, braceEnd - 1)))
                  THEN TRUE
                  ELSE hasFunctionHandlersFrom(t, braceEnd + 1)

hasFunctionHandlersInJSX(jsxSource) == hasFunctionHandlersFrom(jsxSource, 1)

\* replaceFunctionHandlersInJSX (426-503), from item p on
RECURSIVE replaceFunctionHandlersFrom(_, _)
replaceFunctionHandlersFrom(t, p) ==
    IF p > Len(t) \/ PropStarts(t, p) = {} THEN t
    ELSE LET propStart == Min(PropStarts(t, p))
             braceStart == SkipWord(t, propStart) + 1
             propName == SubSeq(t, propStart, braceStart - 2)
             braceEnd == ScanBrace(t, braceStart, 0, FALSE, "")
             mock == propName \o <<"=", "{">> \o FnCall \o <<"}">>
         IN  IF braceEnd = 0 THEN replaceFunctionHandlersFrom(t, braceStart + 1)
             ELSE IF isFunctionHandler(Trim(SubSeq(t, braceStart + 1, braceEnd - 1)))
                  THEN replaceFunctionHandlersFrom(
                           SubSeq(t, 1, propStart - 1) \o mock \o SliceFrom(t, braceEnd),
                           propStart + Len(mock))
                  ELSE replaceFunctionHandlersFrom(t, braceEnd + 1)

replaceFunctionHandlersInJSX(jsxSource) == replaceFunctionHandlersFrom(jsxSource, 1)

----------------------------------------------------------------------------
(* story-generator.ts: component tags inside JSX source *)

FragmentName == <<"F","r","a","g","m","e","n","t">>
ReactName == <<"R","e","a","c","t">>
Div == <<"div">>

IsLetter(c) == IsAlnum(c) /\ c \notin Digit

\* /<([A-Z][a-zA-Z0-9]*)(?:\s|>|\.)/ at item i: the index after the name, or 0
TagNameEnd(t, i) ==
    IF i + 1 <= Len(t) /\ t[i] = "<" /\ IsUpperCh(t[i + 1])
    THEN LET e == SkipAlnum(t, i + 1)
         IN  IF e <= Len(t) /\ (IsSpace(t[e]) \/ t[e] = ">" \/ t[e] = ".") THEN e ELSE 0
    ELSE 0

AppendNew(names, n) == IF n \in Range(names) THEN names ELSE Append(names, n)

\* extractComponentNamesFromJSXSource (234-251): the names in order of first match
RECURSIVE extractFrom(_, _, _)
extractFrom(t, i, names) ==
    IF i > Len(t) THEN names
    ELSE LET e == TagNameEnd(t, i)
         IN  IF e = 0 THEN extractFrom(t, i + 1, names)
             ELSE LET name == SubSeq(t, i + 1, e - 1)
                  IN  extractFrom(t, e + 1,
                          IF name # FragmentName /\ name # ReactName
                          THEN AppendNew(names, name) ELSE names)

extractComponentNamesFromJSXSource(jsxSource) == extractFrom(jsxSource, 1, <<>>)

\* the length of the match at item i of one of the regular expressions of
\* replaceStyledComponentsInJSX, or 0:
\*   "styledOpen"  /<styled\.([a-zA-Z][a-zA-Z0-9]*)/          (614)
\*   "styledClose" /<\/styled\.([a-zA-Z][a-zA-Z0-9]*)>/       (615)
\*   "open"        new RegExp(`<${name}(\\s|>)`)              (626)
\*   "close"       new RegExp(`</${name}>`)                   (630)
TagMatchLen(t, i, kind, name) ==
    CASE kind = "styledOpen" ->
           IF MatchAt(t, i, <<"<", "styled", ".">>) /\ i + 3 <= Len(t) /\ IsLetter(t[i + 3])
           THEN SkipAlnum(t, i + 3) - i ELSE 0
      [] kind = "styledClose" ->
           IF MatchAt(t, i, <<"<", "/", "styled", ".">>) /\ i + 4 <= Len(t) /\ IsLetter(t[i + 4])
              /\ SkipAlnum(t, i + 4) <= Len(t) /\ t[SkipAlnum(t, i + 4)] = ">"
           THEN SkipAlnum(t, i + 4) + 1 - i ELSE 0
      [] kind = "open" ->
           IF MatchAt(t, i, <<"<">> \o name) /\ i + Len(name) + 1 <= Len(t)
              /\ (IsSpace(t[i + Len(name) + 1]) \/ t[i + Len(name) + 1] = ">")
           THEN Len(name) + 2 ELSE 0
      [] kind = "close" ->
           IF MatchAt(t, i, <<"<", "/">> \o name \o <<">">>) THEN Len(name) + 3 ELSE 0

\* what the match of length n at item i is replaced by
TagReplacement(t, i, n, kind) ==
    CASE kind = "styledOpen" -> <<"<">> \o Div
      [] kind = "styledClose" -> <<"<", "/">> \o Div \o <<">">>
      [] kind = "open" -> <<"<">> \o Div \o <<t[i + n - 1]>>
      [] kind = "close" -> <<"<", "/">> \o Div \o <<">">>

\* t.replace(regex, replacement) with the g flag
RECURSIVE ReplaceTags(_, _, _, _)
ReplaceTags(t, i, kind, name) ==
    IF i > Len(t) THEN <<>>
    ELSE LET n == TagMatchLen(t, i, kind, name)
         IN  IF n = 0 THEN <<t[i]>> \o ReplaceTags(t, i + 1, kind, name)
             ELSE TagReplacement(t, i, n, kind) \o ReplaceTags(t, i + n, kind, name)

\* the registry: a set of records [name, path]; componentRegistry.has / get
RegistryHas(registry, name) == \E r \in registry : r.name = name
RegistryGet(registry, name) == (CHOOSE r \in registry : r.name = name).path

\* the loop over componentNames (622-633)
RECURSIVE replaceUnknown(_, _, _)
replaceUnknown(t, names, registry) ==
    IF names = <<>> THEN t
    ELSE IF ~ RegistryHas(registry, Head(names))
         THEN replaceUnknown(
                  ReplaceTags(ReplaceTags(t, 1, "open", Head(names)), 1, "close", Head(names)),
                  Tail(names), registry)
         ELSE replaceUnknown(t, Tail(names), registry)

\* replaceStyledComponentsInJSX (610-637); the handler always passes a registry
replaceStyledComponentsInJSX(jsxSource, registry) ==
    LET styled == ReplaceTags(ReplaceTags(jsxSource, 1, "styledOpen", <<>>),
                              1, "styledClose", <<>>)
    IN  replaceUnknown(styled, extractComponentNamesFromJSXSource(styled), registry)

----------------------------------------------------------------------------
(* story-generator.ts: the args object *)

\* JSON.stringify of a string
JsonChar(c) == CASE c = "\"" -> <<"\\", "\"">>
                 [] c = "\\" -> <<"\\", "\\">>
                 [] c = "\n" -> <<"\\", "n">>
                 [] OTHER -> <<c>>
JsonString(str) == <<"\"">> \o Flatten([i \in DOMAIN str |-> JsonChar(str[i])]) \o <<"\"">>

\* formatPropKey (594-600)
formatPropKey(key) == IF IsWordCh(key) \/ key = "$" THEN <<key>> ELSE JsonString(<<key>>)

\* lines 652-660 of formatPropValue: a JSX source of several lines, re-indented
formatJsx(jsxSource, indentLevel) ==
    IF "\n" \in Range(jsxSource)
    THEN LET lines == SplitOn(jsxSource, "\n", 1, <<>>)
             indented == [i \in DOMAIN lines |->
                             IF i = 1 THEN lines[i] ELSE Indent(indentLevel) \o lines[i]]
         IN  <<"(", "\n">> \o Indent(indentLevel) \o Join(indented, <<"\n">>)
                 \o <<"\n">> \o Indent(indentLevel - 1) \o <<")">>
    ELSE jsxSource

\* formatPropValue (642-714)
RECURSIVE formatPropValue(_, _, _)
formatPropValue(value, indentLevel, registry) ==
    CASE value.t = "jsx" ->
           formatJsx(replaceStyledComponentsInJSX(replaceFunctionHandlersInJSX(value.s), registry),
                     indentLevel)
      [] value.t = "fn" -> FnCall
      [] value.t = "null" -> <<"n","u","l","l">>
      [] value.t = "str" -> JsonString(value.s)
      [] value.t = "num" -> value.s
      [] value.t = "bool" -> IF value.b THEN <<"t","r","u","e">> ELSE <<"f","a","l","s","e">>
      [] value.t = "arr" ->
           IF value.kids = <<>> THEN <<"[", "]">>
           ELSE <<"[", "\n">>
                \o Join([i \in DOMAIN value.kids |->
                            Indent(indentLevel + 1)
                            \o formatPropValue(value.kids[i].val, indentLevel + 1, registry)
                            \o <<",">>], <<"\n">>)
                \o <<"\n">> \o Indent(indentLevel) \o <<"]">>
      [] value.t = "obj" ->
           IF value.kids = <<>> THEN <<"{", "}">>
           ELSE <<"{", "\n">>
                \o Join([i \in DOMAIN value.kids |->
                            Indent(indentLevel + 1) \o formatPropKey(value.kids[i].key)
                            \o <<":", " ">>
                            \o formatPropValue(value.kids[i].val, indentLevel + 1, registry)
                            \o <<",">>], <<"\n">>)
                \o <<"\n">> \o Indent(indentLevel) \o <<"}">>

\* generateArgsContent (571-589)
generateArgsContent(props, indentLevel, registry) ==
    IF props = <<>> THEN <<"{", "}">>
    ELSE <<"{", "\n">>
         \o Join([i \in DOMAIN props |->
                     Indent(indentLevel + 1) \o formatPropKey(props[i].key) \o <<":", " ">>
                     \o formatPropValue(props[i].val, indentLevel + 1, registry) \o <<",">>],
                 <<"\n">>)
         \o <<"\n">> \o Indent(indentLevel) \o <<"}">>

\* hasAnyFunctionProps (306-324)
RECURSIVE hasAnyFunctionProps(_)
hasAnyFunctionProps(props) ==
    \E i \in DOMAIN props :
        \/ props[i].val.t = "fn"
        \/ props[i].val.t = "jsx" /\ hasFunctionHandlersInJSX(props[i].val.s)
        \/ props[i].val.t \in {"obj", "arr"} /\ hasAnyFunctionProps(props[i].val.kids)

\* hasAnyJSXProps (329-341)
RECURSIVE hasAnyJSXProps(_)
hasAnyJSXProps(props) ==
    \E i \in DOMAIN props :
        \/ props[i].val.t = "jsx"
        \/ props[i].val.t \in {"obj", "arr"} /\ hasAnyJSXProps(props[i].val.kids)

RECURSIVE AppendAllNew(_, _)
AppendAllNew(names, more) ==
    IF more = <<>> THEN names ELSE AppendAllNew(AppendNew(names, Head(more)), Tail(more))

\* collectComponentRefs (256-277): the Set refs as the sequence of its insertions
RECURSIVE collectComponentRefs(_, _)
collectComponentRefs(props, refs) ==
    IF props = <<>> THEN refs
    ELSE LET value == Head(props).val
             here == IF value.t = "jsx"
                     THEN AppendAllNew(AppendAllNew(refs, value.refs),
                                       extractComponentNamesFromJSXSource(value.s))
                     ELSE IF value.t \in {"obj", "arr"}
                          THEN collectComponentRefs(value.kids, refs)
                          ELSE refs
         IN  collectComponentRefs(Tail(props), here)

----------------------------------------------------------------------------
(* story-generator.ts: a fresh story file *)

StoryName == <<"S","t","o","r","y">>
MetaName == <<"M","e","t","a">>
StoryObjName == <<"S","t","o","r","y","O","b","j">>
StorybookTest == <<"storybook", "/", "test">>

ImportReactLine == <<"import", " ">> \o ReactName \o <<" ", "from", " ", "'", "react", "'", ";">>
ImportTypesLine ==
    <<"import", " ", "type", " ", "{", " ">> \o MetaName \o <<",", " ">> \o StoryObjName
    \o <<" ", "}", " ", "from", " ", "'", "@">> \o <<"storybook", "/", "react", "-", "vite">>
    \o <<"'", ";">>
ImportFnLine ==
    <<"import", " ", "{", " ", "fn", " ", "}", " ", "from", " ", "'">> \o StorybookTest
    \o <<"'", ";">>

\* `import ${imp.name} from '${imp.path}';`
ImportLine(imp) ==
    <<"import", " ">> \o imp.name \o <<" ", "from", " ", "'">> \o imp.path \o <<"'", ";">>

\* the story export of lines 212-216 and 562-565, from "export" on
StoryExport(storyName, props, registry) ==
    <<"export", " ", "const", " ">> \o storyName \o <<":", " ">> \o StoryName
    \o <<" ", "=", " ", "{">>
    \o (IF Len(props) > 0
        THEN <<"\n", " ", " ", "args", ":", " ">> \o generateArgsContent(props, 1, registry)
             \o <<",">>
        ELSE <<>>)
    \o <<"\n", "}", ";", "\n">>

\* generateStoryContent (525-566)
generateStoryContent(componentName, imports, props, storyName, registry) ==
    LET importStatements ==
            Join((IF hasAnyJSXProps(props) THEN <<ImportReactLine>> ELSE <<>>)
                 \o <<ImportTypesLine>>
                 \o (IF hasAnyFunctionProps(props) THEN <<ImportFnLine>> ELSE <<>>)
                 \o [i \in DOMAIN imports |-> ImportLine(imports[i])],
                 <<"\n">>)
    IN  importStatements
        \o <<"\n", "\n", "const", " ", "meta", ":", " ">> \o MetaName
        \o <<"<", "typeof", " ">> \o componentName \o <<">", " ", "=", " ", "{", "\n">>
        \o <<" ", " ", "component", ":", " ">> \o componentName \o <<",", "\n", "}", ";", "\n">>
        \o <<"\n", "export", " ", "default", " ", "meta", ";", "\n">>
        \o <<"type", " ">> \o StoryName \o <<" ", "=", " ">> \o StoryObjName
        \o <<"<", "typeof", " ">> \o componentName \o <<">", ";", "\n", "\n">>
        \o StoryExport(storyName, props, registry)

----------------------------------------------------------------------------
(* story-generator.ts: appending to an existing story file *)

\* /export\s+const\s+(\w+)\s*[=:]/ at item i: the captured name, or <<>>
ExportNameAt(t, i) ==
    IF i <= Len(t) /\ t[i] = "export" /\ SkipWs(t, i + 1) > i + 1
       /\ SkipWs(t, i + 1) <= Len(t) /\ t[SkipWs(t, i + 1)] = "const"
    THEN LET c == SkipWs(t, i + 1)
             n == SkipWs(t, c + 1)
             e == SkipWord(t, n)
             k == SkipWs(t, e)
         IN  IF n > c + 1 /\ e > n /\ k <= Len(t) /\ t[k] \in {"=", ":"}
             THEN SubSeq(t, n, e - 1) ELSE <<>>
    ELSE <<>>

\* the exported names read from the story file on disk instead of the argument
existingStoriesOnDisk(existingContent) ==
    IF file.exists THEN {ExportNameAt(file.text, i) : i \in DOMAIN file.text} \ {<<>>}
    ELSE {}

\* existingStories (144-151)
existingStories(existingContent) ==
    {ExportNameAt(existingContent, i) : i \in DOMAIN existingContent} \ {<<>>}

\* the suffix loop (156-158): the first counter, from the given one on, whose
\* suffixed name is free
RECURSIVE firstFreeCounter(_, _, _)
firstFreeCounter(stories, storyName, counter) ==
    IF (storyName \o Decimal(counter)) \in stories
    THEN firstFreeCounter(stories, storyName, counter + 1)
    ELSE counter

\* the suffix that starts counting at 1
finalStoryNameFromOne(existingContent, storyName) ==
    IF storyName \in existingStories(existingContent)
    THEN storyName \o Decimal(firstFreeCounter(existingStories(existingContent), storyName, 1))
    ELSE storyName

\* the name taken as given, without looking at the existing exports
finalStoryNameAsGiven(existingContent, storyName) == storyName

\* finalStoryName (143, 153-160)
finalStoryName(existingContent, storyName) ==
    IF storyName \in existingStories(existingContent)
    THEN storyName \o Decimal(firstFreeCounter(existingStories(existingContent), storyName, 2))
    ELSE storyName

Max(S) == CHOOSE i \in S : \A j \in S : j <= i

\* one repetition of /(import\s+.+from\s+['"][^'"]+['"];?\s*\n)/ at item i: the
\* index after it, or 0.  `.+` stays on one line and is followed by the last
\* "from" of that line after which the rest matches.
ImportUnitEnd(t, i) ==
    IF ~ (i + 1 <= Len(t) /\ t[i] = "import" /\ IsSpace(t[i + 1])) THEN 0
    ELSE LET ws == SkipWs(t, i + 1)  \* after the whitespace run that follows import
             RestEnd(f) ==  \* from\s+['"][^'"]+['"];?\s*\n at item f
                 LET q == SkipWs(t, f + 1)
                     c == IF q + 1 <= Len(t)
                          THEN Min({k \in (q + 1)..(Len(t) + 1) :
                                       k = Len(t) + 1 \/ t[k] \in {"'", "\""}})
                          ELSE Len(t) + 1
                     a == IF c + 1 <= Len(t) /\ t[c + 1] = ";" THEN c + 2 ELSE c + 1
                     w == SkipWs(t, a)
                     nls == {k \in a..(w - 1) : t[k] = "\n"}
                 IN  IF q > f + 1 /\ q <= Len(t) /\ t[q] \in {"'", "\""}
                        /\ c <= Len(t) /\ c > q + 1 /\ nls # {}
                     THEN Max(nls) + 1 ELSE 0
             froms == {f \in (i + 3)..Len(t) :
                          /\ t[f] = "from"
                          /\ \E k \in (i + 1)..(ws - 1) :
                                 k + 1 <= f - 1 /\ \A j \in (k + 1)..(f - 1) : t[j] # "\n"
                          /\ RestEnd(f) # 0}
         IN  IF froms = {} THEN 0 ELSE RestEnd(Max(froms))

RECURSIVE ImportBlockEnd(_, _)
ImportBlockEnd(t, i) ==
    LET e == ImportUnitEnd(t, i)
    IN  IF e = 0 THEN i ELSE ImportBlockEnd(t, e)

\* updatedContent.match(/^(import\s+.+from\s+['"][^'"]+['"];?\s*\n)+/m) (169, 199):
\* the starts of lines at which the expression matches
ImportBlockStarts(t) ==
    {i \in DOMAIN t : (i = 1 \/ t[i - 1] = "\n") /\ ImportUnitEnd(t, i) # 0}

\* insertPos (171, 201), or -1 when there is no match
importInsertPos(t) ==
    IF ImportBlockStarts(t) = {} THEN -1
    ELSE ImportBlockEnd(t, Min(ImportBlockStarts(t))) - 1

\* the insertion that leaves out the line break that ends the inserted line
insertAfterImportsNoBreak(t, line) ==
    IF importInsertPos(t) = -1 THEN t
    ELSE InsertAt(t, importInsertPos(t), SubSeq(line, 1, Len(line) - 1))

\* lines 169-173 and 199-204: the line inserted after the import block, if any
insertAfterImports(t, line) ==
    IF importInsertPos(t) = -1 THEN t ELSE InsertAt(t, importInsertPos(t), line)

\* /import\s*\{([^}]+)\}\s*from\s*['"]PATH['"]/ at item i: [len, names] of the
\* match, len = 0 if there is none
NamedImportAt(t, i, path) ==
    LET a == SkipWs(t, i + 1)
        c == FirstAt(t, a + 1, "}")
        b == SkipWs(t, c + 1)
        q == SkipWs(t, b + 1)
        e == q + 1 + Len(path)
    IN  IF /\ i <= Len(t) /\ t[i] = "import"
           /\ a <= Len(t) /\ t[a] = "{"
           /\ c > a + 1
           /\ b <= Len(t) /\ t[b] = "from"
           /\ q <= Len(t) /\ t[q] \in {"'", "\""}
           /\ MatchAt(t, q + 1, path)
           /\ e <= Len(t) /\ t[e] \in {"'", "\""}
        THEN [len |-> e - i + 1, names |-> SubSeq(t, a + 1, c - 1)]
        ELSE [len |-> 0, names |-> <<>>]

NamedImportStarts(t, path) == {i \in DOMAIN t : NamedImportAt(t, i, path).len # 0}

\* `import { ${names.trim()}, ${name} } from '${path}'`
ExtendedImport(names, name, path) ==
    <<"import", " ", "{", " ">> \o Trim(names) \o <<",", " ">> \o name
    \o <<" ", "}", " ", "from", " ", "'">> \o path \o <<"'">>

\* t.replace(pattern, replacement) for a string pattern that occurs in t
ReplaceFirst(t, pattern, replacement) ==
    LET i == IndexOf(t, pattern)
    IN  SubSeq(t, 1, i - 1) \o replacement \o SliceFrom(t, i + Len(pattern) - 1)

FromPath(path) == <<"from", " ", "'">> \o path \o <<"'">>

\* lines 165-180: the import of fn
addFnImport(existingContent, props) ==
    IF hasAnyFunctionProps(props) /\ ~ Includes(existingContent, FromPath(StorybookTest))
    THEN insertAfterImports(existingContent, ImportFnLine \o <<"\n">>)
    ELSE IF hasAnyFunctionProps(props) /\ Includes(existingContent, FromPath(StorybookTest))
            /\ ~ Includes(existingContent, <<"fn">>)
            /\ NamedImportStarts(existingContent, <<"@">> \o StorybookTest) # {}
         THEN LET i == Min(NamedImportStarts(existingContent, <<"@">> \o StorybookTest))
                  m == NamedImportAt(existingContent, i, <<"@">> \o StorybookTest)
              IN  SubSeq(existingContent, 1, i - 1)
                  \o ExtendedImport(m.names, <<"fn">>, StorybookTest)
                  \o SliceFrom(existingContent, i + m.len - 1)
         ELSE existingContent

\* imp.name.replace(/[{}]/g, '').trim() (184)
importNameOf(imp) == Trim(SelectSeq(imp.name, LAMBDA c : c \notin {"{", "}"}))

\* the body of the loop over imports (183-206)
addImport(existingContent, updatedContent, imp) ==
    IF Includes(existingContent, importNameOf(imp)) /\ Includes(existingContent, imp.path)
    THEN updatedContent
    ELSE IF NamedImportStarts(updatedContent, imp.path) # {} /\ StartsWith(imp.name, <<"{">>)
         THEN LET i == Min(NamedImportStarts(updatedContent, imp.path))
                  m == NamedImportAt(updatedContent, i, imp.path)
              IN  IF ~ Includes(m.names, importNameOf(imp))
                  THEN ReplaceFirst(updatedContent, SubSeq(updatedContent, i, i + m.len - 1),
                                    ExtendedImport(m.names, importNameOf(imp), imp.path))
                  ELSE updatedContent
         ELSE IF NamedImportStarts(updatedContent, imp.path) = {}
                 /\ ~ Includes(existingContent, FromPath(imp.path))
              THEN insertAfterImports(updatedContent, ImportLine(imp) \o <<"\n">>)
              ELSE updatedContent

RECURSIVE addImports(_, _, _)
addImports(existingContent, updatedContent, imports) ==
    IF imports = <<>> THEN updatedContent
    ELSE addImports(existingContent, addImport(existingContent, updatedContent, Head(imports)),
                    Tail(imports))

\* appendStoryToExisting (132-221)
appendStoryToExisting(existingContent, storyName, props, imports, registry) ==
    TrimEnd(addImports(existingContent, addFnImport(existingContent, props), imports))
    \o <<"\n", "\n">>
    \o StoryExport(finalStoryName(existingContent, storyName), props, registry)

----------------------------------------------------------------------------
(* story-generator.ts: generateStory *)

StoriesTsx == <<".", "stories", ".", "tsx">>

Braced(name) == <<"{", " ">> \o name \o <<" ", "}">>

\* the loop of lines 69-80 that leaves out the test of line 70
RECURSIVE refImportsNoSelfSkip(_, _, _, _)
refImportsNoSelfSkip(refs, componentName, componentDir, registry) ==
    IF refs = <<>> THEN <<>>
    ELSE (IF RegistryHas(registry, Head(refs))
          THEN <<[name |-> Braced(Head(refs)),
                  path |-> getRelativeImportPath(componentDir, RegistryGet(registry, Head(refs)))]>>
          ELSE <<>>)
         \o refImportsNoSelfSkip(Tail(refs), componentName, componentDir, registry)

\* lines 69-80: the imports of the referenced components
RECURSIVE refImports(_, _, _, _)
refImports(refs, componentName, componentDir, registry) ==
    IF refs = <<>> THEN <<>>
    ELSE (IF Head(refs) # componentName /\ RegistryHas(registry, Head(refs))
          THEN <<[name |-> Braced(Head(refs)),
                  path |-> getRelativeImportPath(componentDir, RegistryGet(registry, Head(refs)))]>>
          ELSE <<>>)
         \o refImports(Tail(refs), componentName, componentDir, registry)

\* generateStory (37-114); data = [meta, props, registry, storyName, existingContent]
generateStory(data) ==
    LET componentName == data.meta.componentName
        componentDir == dirname(data.meta.filePath)
        componentFileName == basename(data.meta.filePath, extname(data.meta.filePath))
        storyName == toValidStoryName(rawStoryName(data.storyName, data.props))
        imports ==
            <<[name |-> IF data.meta.isDefaultExport THEN componentName
                        ELSE Braced(componentName),
               path |-> <<".", "/">> \o componentFileName]>>
            \o refImports(collectComponentRefs(data.props, <<>>), componentName,
                          componentDir, data.registry)
    IN  [content |-> IF data.existingContent # <<>>
                     THEN appendStoryToExisting(data.existingContent, storyName, data.props,
                                                imports, data.registry)
                     ELSE generateStoryContent(componentName, imports, data.props, storyName,
                                               data.registry),
         filePath |-> pathJoin(componentDir, componentFileName \o StoriesTsx),
         imports |-> imports,
         storyName |-> storyName]

----------------------------------------------------------------------------
(* The name pipeline of generateStory (49-52) on enumerated inputs *)

NameChars == {"a", "B", "2", " ", "#"}
Names == SeqsUpTo(NameChars, MaxNameLen)

Big == <<"b","i","g">>
Red == <<"r","e","d">>

NameVals == {StrV(Big), StrV(<<>>), BoolV(TRUE), NumV("2")}
NamePairs == {<<"size", "variant">>, <<"variant", "size">>,
              <<"kind", "color">>, <<"disabled", "variant">>}
NameProps ==
    {<<>>}
    \cup {<<Entry(k, v)>> : k \in {"size", "variant", "color", "disabled"}, v \in NameVals}
    \cup {<<Entry(p[1], v), Entry(p[2], w)>> :
             p \in NamePairs, v \in {StrV(Big), BoolV(TRUE)}, w \in {StrV(Red), BoolV(TRUE)}}

NoFile == [exists |-> FALSE, text |-> <<>>]
NoNames == [raw |-> <<>>, valid |-> <<>>, twice |-> <<>>, thrice |-> <<>>]
NoCall == [done |-> FALSE]
NoOptions == [storiesDir |-> <<>>]
NoArgs == [fn |-> "none"]
NoResult == [fn |-> "none"]

\* the browser page and the dev server's request handling, not running
NoRuntime == [on |-> FALSE]
NoHost == [on |-> FALSE]
NoClient == [on |-> FALSE]
PageIdle == runtime = NoRuntime /\ host = NoHost /\ client = NoClient

\* the variables of a function applied on its own, left alone
FnIdle == fpc = "idle" /\ args = NoArgs /\ result = NoResult

NameInit ==
    /\ npc = "in"
    /\ nameIn \in [explicit : Names, props : {<<>>, <<Entry("variant", StrV(Red))>>}]
                  \cup [explicit : {<<>>}, props : NameProps]
    /\ nameOut = NoNames
    /\ file = NoFile
    /\ exported = <<>>
    /\ reqs = 0
    /\ last = NoCall
    /\ options = NoOptions
    /\ FnIdle
    /\ PageIdle

\* generateStory lines 49-52, and the normalization applied again to its result
NormalizeName ==
    /\ npc = "in"
    /\ npc' = "out"
    /\ LET raw == rawStoryName(nameIn.explicit, nameIn.props)
           valid == toValidStoryName(raw)
           twice == toValidStoryName(valid)
       IN  nameOut' = [raw |-> raw, valid |-> valid, twice |-> twice,
                       thrice |-> toValidStoryName(twice)]
    /\ UNCHANGED <<nameIn, file, exported, reqs, last, options, runtime, host, client, fpc, args, result>>

NameNext == NormalizeName

SpecName == NameInit /\ [][NameNext]_vars

----------------------------------------------------------------------------
(* The host: component-highlighter-plugin.ts, the create-story handler *)

\* the component the requests are about, and the components of the registry
Target == <<"I", "b">>
TargetFile == <<"/", "p", "/", "s", "/">> \o Target \o <<".", "tsx">>
IName == <<"I">>
KName == <<"K">>
UName == <<"U">>
Registry == {[name |-> Target, path |-> TargetFile],
             [name |-> IName, path |-> <<"/", "p", "/", "s", "/", "I", ".", "tsx">>],
             [name |-> KName, path |-> <<"/", "p", "/", "c", "/", "K", ".", "tsx">>]}

PName == <<"P">>

\* JSX sources as the serializer writes them, and one without the space before "/>"
IconJsx == <<"<", "I", " ", "/", ">">>
UnknownJsx == <<"<", "U", " ", "label", "=", "\"", "a", "\"", " ", "/", ">">>
UnknownTightJsx == <<"<", "K", ">", "\n", " ", " ", "<", "U", "/", ">", "\n", "<", "/", "K", ">">>
HandlerJsx == <<"<", "K", " ", "onClick", "=", "{", "(", ")", " ", "=", ">", " ",
                "doThing", "(", ")", "}", " ", "/", ">">>
SelfJsx == <<"<", "U", ">", "<", "I", "b", " ", "/", ">", "<", "/", "U", ">">>

RequestProps ==
    {<<>>,
     <<Entry("label", StrV(<<"a">>)), Entry("size", StrV(Big))>>,
     <<Entry("onClick", FnV)>>,
     <<Entry("icon", JsxV(IconJsx, <<IName>>))>>,
     <<Entry("children", JsxV(UnknownJsx, <<UName>>))>>,
     <<Entry("children", JsxV(UnknownTightJsx, <<KName, UName>>))>>,
     <<Entry("icon", JsxV(HandlerJsx, <<KName>>)), Entry("disabled", BoolV(TRUE))>>,
     <<Entry("children", JsxV(SelfJsx, <<UName, Target>>))>>}

\* the payloads of component-highlighter:create-story
Requests ==
    [storyName : {<<>>, PName}, props : RequestProps, isDefaultExport : {FALSE}]
    \cup [storyName : {PName}, props : {<<>>, <<Entry("onClick", FnV)>>},
          isDefaultExport : {TRUE}]

Lines(ls) == Join(ls, <<"\n">>)

ImportTargetLine == <<"import", " ", "{", " ">> \o Target
                    \o <<" ", "}", " ", "from", " ", "'", ".", "/">> \o Target \o <<"'", ";">>
MetaLines ==
    << <<"const", " ", "meta", ":", " ">> \o MetaName \o <<"<", "typeof", " ">> \o Target
          \o <<">", " ", "=", " ", "{">>,
       <<" ", " ", "component", ":", " ">> \o Target \o <<",">>,
       <<"}", ";">>,
       <<>>,
       <<"export", " ", "default", " ", "meta", ";">>,
       <<"type", " ">> \o StoryName \o <<" ", "=", " ">> \o StoryObjName
          \o <<"<", "typeof", " ">> \o Target \o <<">", ";">>,
       <<>> >>
TypedExportLines(name) ==
    << <<"export", " ", "const", " ">> \o name \o <<":", " ">> \o StoryName \o <<" ", "=", " ", "{">>,
       <<"}", ";">> >>
PlainExportLines(name) ==
    << <<"export", " ", "const", " ">> \o name \o <<"=", "{">>,
       <<" ", " ", "args", ":", " ", "{", " ", "label", ":", " ", "\"", "{", "\"", " ", "}", ",">>,
       <<"}", ";">> >>

\* story files that exist before the first request: one as the generator leaves
\* it after three stories named P, and one written by hand
SeedThree ==
    [text |-> Lines(<<ImportTypesLine, ImportTargetLine, <<>>>> \o MetaLines
                    \o TypedExportLines(PName) \o << <<>> >>
                    \o TypedExportLines(PName \o <<"2">>) \o << <<>> >>
                    \o TypedExportLines(PName \o <<"3">>) \o << <<>> >>),
     exports |-> <<PName, PName \o <<"2">>, PName \o <<"3">>>>]
SeedByHand ==
    [text |-> Lines(<<ImportTypesLine,
                      <<"import", " ", "{", " ", "expect", " ", "}", " ", "from", " ", "'">>
                          \o StorybookTest \o <<"'", ";">>,
                      <<"import", " ", "{", "K", "}", " ", "from", " ", "\"", ".", ".", "/", "c",
                        "/", "K", "\"">>,
                      ImportTargetLine, <<>>>> \o MetaLines
                    \o PlainExportLines(PName \o <<"2">>) \o << <<>> >>
                    \o TypedExportLines(PName) \o << <<" ", " ">>, <<>> >>),
     exports |-> <<PName \o <<"2">>, PName>>]
Seeds == {SeedThree, SeedByHand}

\* the name of the last `export const` of a story file the generator wrote
NewExportStart(t) == Max({i \in DOMAIN t : MatchAt(t, i, <<"export", " ", "const", " ">>)})
NewExportName(t) == SubSeq(t, NewExportStart(t) + 4, SkipWord(t, NewExportStart(t) + 4) - 1)

Init ==
    /\ npc = "idle"
    /\ nameIn = [explicit |-> <<>>, props |-> <<>>]
    /\ nameOut = NoNames
    /\ \/ file = NoFile /\ exported = <<>>
       \/ \E seed \in Seeds : file = [exists |-> TRUE, text |-> seed.text]
                              /\ exported = seed.exports
    /\ reqs = 0
    /\ last = NoCall
    /\ options = NoOptions
    /\ FnIdle
    /\ PageIdle

\* outputPath (242-257)
outputPath(filePath, storiesDir) ==
    LET componentDir == dirname(filePath)
        componentFileName == basename(filePath, extname(filePath))
    IN  IF storiesDir = <<>>
        THEN pathJoin(componentDir, componentFileName \o StoriesTsx)
        ELSE pathJoin(pathJoin(componentDir, storiesDir), componentFileName \o StoriesTsx)

\* the handler of component-highlighter:create-story (225-311), writeStoryFiles on;
\* file is the file at outputPath
CreateStory(req) ==
    /\ reqs < MaxReqs
    /\ LET existingContent == IF file.exists THEN file.text ELSE <<>>
           data == [meta |-> [componentName |-> Target, filePath |-> TargetFile,
                              isDefaultExport |-> req.isDefaultExport],
                    props |-> req.props,
                    registry |-> Registry,
                    storyName |-> req.storyName,
                    existingContent |-> existingContent]
           story == generateStory(data)
       IN  /\ file' = [exists |-> TRUE, text |-> story.content]
           /\ exported' = Append(exported, NewExportName(story.content))
           /\ last' = [done |-> TRUE, data |-> data, story |-> story,
                       isAppend |-> existingContent # <<>>,
                       outputPath |-> outputPath(TargetFile, options.storiesDir)]
    /\ reqs' = reqs + 1
    /\ UNCHANGED <<npc, nameIn, nameOut, options, runtime, host, client, fpc, args, result>>

Next == \E req \in Requests : CreateStory(req)

Spec == Init /\ [][Next]_vars

\* the plugin with and without the storiesDir option, no story file yet
StoriesDir == <<"s", "t">>
DirInit ==
    /\ npc = "idle"
    /\ nameIn = [explicit |-> <<>>, props |-> <<>>]
    /\ nameOut = NoNames
    /\ file = NoFile /\ exported = <<>>
    /\ reqs = 0
    /\ last = NoCall
    /\ options \in {NoOptions, [storiesDir |-> StoriesDir]}
    /\ FnIdle
    /\ PageIdle

SpecDir == DirInit /\ [][Next]_vars

----------------------------------------------------------------------------
(* Claims on the name pipeline *)

IsIdentifier(s) ==
    /\ s # <<>>
    /\ \A i \in DOMAIN s : s[i] \in Lower \cup Upper \cup Digit
    /\ s[1] \notin Digit

Stripped(s) == SelectSeq(s, LAMBDA c : c \in Lower \cup Upper \cup Digit)

\* C7: the normalized fixture name is a valid identifier (non-empty, letters and
\* digits only, no leading digit), and a name whose stripped form is empty or
\* starts with a digit is normalized to 'Default'.
C7_ValidIdentifier ==
    npc = "out" =>
        /\ IsIdentifier(nameOut.valid)
        /\ (Stripped(nameOut.raw) = <<>> \/ Stripped(nameOut.raw)[1] \in Digit)
              => nameOut.valid = DefaultName

\* no whitespace between two letters or digits of s
SingleWord(s) ==
    ~ \E i, j, k \in DOMAIN s :
        i < j /\ j < k /\ IsAlnum(s[i]) /\ IsSpace(s[j]) /\ IsAlnum(s[k])

\* C8 as stated: normalization is idempotent for every string.
C8_Idempotent == npc = "out" => nameOut.twice = nameOut.valid

\* C8 amended: normalization is idempotent for every string of at most one word;
\* for a string of several words the second application lower-cases every
\* character after the first, and a third application changes nothing more.
C8_IdempotentSingleWord ==
    npc = "out" =>
        /\ SingleWord(nameOut.raw) => nameOut.twice = nameOut.valid
        /\ nameOut.twice = <<ToUpper(nameOut.valid[1])>> \o LowerStr(Tail(nameOut.valid))
        /\ nameOut.thrice = nameOut.twice

C8_Witness ==
    /\ npc = "out"
    /\ ~ SingleWord(nameOut.raw)
    /\ nameOut.twice # nameOut.valid
    /\ nameOut.thrice = nameOut.twice

ClaimedKeys == <<"variant", "type", "size", "mode", "status", "kind",
                 "color", "intent", "appearance">>
GeneratorKeys == <<"variant", "type", "size", "mode", "status", "kind">>

FirstOf(S) == CHOOSE i \in S : \A j \in S : i <= j

\* C9 as stated: explicit name, else the value of the first key of the nine-key
\* list present in props, else the key of the first boolean-true prop, else the
\* fallback literal.
C9_NineKeysThenBoolean ==
    (npc = "out" /\ nameIn.explicit = <<>>) =>
        LET props == nameIn.props
            present == {i \in DOMAIN ClaimedKeys :
                           HasKey(props, ClaimedKeys[i])
                           /\ PropVal(props, ClaimedKeys[i]).t = "str"}
            trues == {i \in DOMAIN props : props[i].val.t = "bool" /\ props[i].val.b}
        IN  IF present # {}
            THEN nameOut.raw = capitalizeFirst(PropVal(props, ClaimedKeys[FirstOf(present)]).s)
            ELSE IF trues # {}
                 THEN nameOut.raw = capitalizeFirst(<<props[FirstOf(trues)].key>>)
                 ELSE nameOut.raw \in {DefaultName, SnapshotName}

\* C9 amended: the raw name is the explicit name if one is given; else the
\* string value, first letter capitalized, of the first key among variant, type,
\* size, mode, status, kind that props holds with a string value, whatever the
\* insertion order of props; else the literal 'Snapshot'.
C9_SixKeysThenSnapshot ==
    npc = "out" =>
        LET props == nameIn.props
            present == {i \in DOMAIN GeneratorKeys :
                           \E j \in DOMAIN props :
                               props[j].key = GeneratorKeys[i] /\ props[j].val.t = "str"}
            val == (CHOOSE e \in Range(props) : e.key = GeneratorKeys[FirstOf(present)]).val.s
        IN  nameOut.raw =
                IF nameIn.explicit # <<>> THEN nameIn.explicit
                ELSE IF present = {} THEN SnapshotName
                ELSE IF val = <<>> THEN <<>>
                ELSE <<ToUpper(val[1])>> \o Tail(val)

C9_Witness ==
    /\ npc = "out"
    /\ nameIn.explicit = <<>>
    /\ Len(nameIn.props) = 2
    /\ nameIn.props[1].key = "size" /\ nameIn.props[1].val.t = "str"
    /\ nameIn.props[2].key = "variant" /\ nameIn.props[2].val.t = "str"
    /\ nameOut.raw = <<"R","e","d">>

----------------------------------------------------------------------------
(* Claims on the generator, read off the handler's last call *)

Appended == last.done /\ last.isAppend

\* the names the file exported before the last call, and the name it exports now
OldExports == Range(SubSeq(exported, 1, Len(exported) - 1))
NewExport == exported[Len(exported)]

\* the text of the story export the last call wrote
NewExportText == SliceFrom(last.story.content, NewExportStart(last.story.content) - 1)

TextLines(t) == SplitOn(t, "\n", 1, <<>>)
IsImportLine(line) == StartsWith(line, <<"import">>)
ImportLines(t) == SelectSeq(TextLines(t), IsImportLine)
OtherLines(t) == SelectSeq(TextLines(t), LAMBDA line : ~ IsImportLine(line))

\* name occurs in line as a whole identifier
HasWord(line, name) ==
    \E i \in DOMAIN line :
        /\ MatchAt(line, i, name)
        /\ i = 1 \/ ~ IsWordCh(line[i - 1])
        /\ i + Len(name) > Len(line) \/ ~ IsWordCh(line[i + Len(name)])

HasPath(line, path) ==
    \/ Includes(line, <<"'">> \o path \o <<"'">>)
    \/ Includes(line, <<"\"">> \o path \o <<"\"">>)

\* the import statements of t that bind name from path
BindingLines(t, name, path) ==
    {i \in DOMAIN ImportLines(t) :
        HasWord(ImportLines(t)[i], name) /\ HasPath(ImportLines(t)[i], path)}

\* C1: in append mode the new export is named N if N is not exported yet, else N
\* followed by the smallest k >= 2 for which N followed by k is not exported; the
\* new name differs from every name the file exported before.
C1_SmallestFreeSuffix ==
    Appended =>
        LET N == last.story.storyName
            Taken(k) == (N \o Decimal(k)) \in OldExports
        IN  /\ NewExport \notin OldExports
            /\ N \notin OldExports => NewExport = N
            /\ N \in OldExports =>
                  \E k \in 2..(Len(exported) + 1) :
                      /\ NewExport = N \o Decimal(k)
                      /\ \A j \in 2..(k - 1) : Taken(j)

C1_Witness ==
    /\ Appended
    /\ {PName, PName \o <<"2">>, PName \o <<"3">>} \subseteq OldExports
    /\ last.story.storyName = PName
    /\ NewExport = PName \o <<"4">>

\* C2: the storyName the generator returns is the name under which the new story
\* is exported in the returned content.
C2_ReturnedNameIsExported ==
    last.done => last.story.storyName = NewExportName(last.story.content)

\* C3: in append mode the output is the existing text, trimmed at the end, with
\* no line changed, added or removed except import lines, followed by an empty
\* line and the new story export.
C3_ExistingPreserved ==
    Appended =>
        LET content == last.story.content
            start == NewExportStart(content)
            head == SubSeq(content, 1, start - 2)
        IN  /\ content[start - 1] = "\n" /\ head # <<>> /\ head[Len(head)] = "\n"
            /\ OtherLines(SubSeq(head, 1, Len(head) - 1))
                   = OtherLines(TrimEnd(last.data.existingContent))
            /\ SliceFrom(content, start - 1)
                   = StoryExport(NewExport, last.data.props, last.data.registry)
            /\ \E old \in {ImportLines(last.data.existingContent)} :
               \E new \in {ImportLines(content)} :
               \E paths \in {{last.story.imports[k].path : k \in DOMAIN last.story.imports}} :
                   \A i \in DOMAIN old :
                       \/ old[i] \in Range(new)
                       \/ \E j \in DOMAIN new : \E path \in paths :
                              HasPath(new[j], path) /\ HasPath(old[i], path)

C3_Witness ==
    /\ Appended
    /\ Len(ImportLines(last.story.content)) > Len(ImportLines(last.data.existingContent))
    /\ last.data.existingContent # TrimEnd(last.data.existingContent)
    /\ Len(exported) >= 3

\* C4: in append mode every import the generator computed is bound by an import
\* statement of the output, from the computed path.
C4_EveryImportBound ==
    Appended =>
        \A k \in DOMAIN last.story.imports :
            BindingLines(last.story.content, importNameOf(last.story.imports[k]),
                         last.story.imports[k].path) # {}

\* C5: when a callback was replaced by fn(), the content holds exactly one import
\* of fn from the mock-callback module, in fresh mode and in append mode.
C5_OneFnImport ==
    (last.done /\ Includes(NewExportText, FnCall)) =>
        Cardinality(BindingLines(last.story.content, <<"fn">>, StorybookTest)) = 1

\* the names of the custom tags of a JSX text, in any tag form
TagNames(t) ==
    {SubSeq(t, i, SkipAlnum(t, i) - 1) :
        i \in {j \in DOMAIN t :
                  /\ IsUpperCh(t[j])
                  /\ \/ j > 1 /\ t[j - 1] = "<"
                     \/ j > 2 /\ t[j - 1] = "/" /\ t[j - 2] = "<"}}

RECURSIVE JsxSources(_)
JsxSources(props) ==
    UNION {IF props[i].val.t = "jsx" THEN {props[i].val.s}
           ELSE JsxSources(props[i].val.kids) : i \in DOMAIN props}

\* C6: a custom tag name of a JSX prop's source that is not in the registry does
\* not occur as a tag name in the content and is not imported.
C6_NoUnknownTag ==
    last.done =>
        \A src \in JsxSources(last.data.props) :
            \A name \in TagNames(src) :
                ~ RegistryHas(last.data.registry, name) =>
                    /\ name \notin TagNames(NewExportText)
                    /\ \A k \in DOMAIN last.story.imports :
                           importNameOf(last.story.imports[k]) # name

\* the component references collected from declared componentRefs and from tags
RECURSIVE DeclaredRefs(_)
DeclaredRefs(props) ==
    UNION {IF props[i].val.t = "jsx" THEN Range(props[i].val.refs)
           ELSE DeclaredRefs(props[i].val.kids) : i \in DOMAIN props}

SelfReferenced ==
    \/ Target \in DeclaredRefs(last.data.props)
    \/ \E src \in JsxSources(last.data.props) : Target \in TagNames(src)

TargetImports(t) == {i \in DOMAIN ImportLines(t) : HasWord(ImportLines(t)[i], Target)}

\* C10: when the collected component references include the target component,
\* the content imports the target exactly once and the import list names it once.
C10_NoSecondSelfImport ==
    (last.done /\ SelfReferenced) =>
        /\ Cardinality(TargetImports(last.story.content)) = 1
        /\ Cardinality({k \in DOMAIN last.story.imports :
                           importNameOf(last.story.imports[k]) = Target}) = 1

C10_Witness ==
    /\ last.done
    /\ SelfReferenced
    /\ ~ last.isAppend
    /\ RegistryHas(last.data.registry, Target)
    /\ Cardinality(TargetImports(last.story.content)) = 1

----------------------------------------------------------------------------
(* getRelativeImportPath applied on its own *)

MaxDepth == 2        \* deepest directory that is enumerated

\* directory names, one of them starting with a dot
DirNames == {<<"a">>, <<"b">>, <<".", "h">>}
FileNames == {<<"F", ".", "tsx">>, <<"G", ".", "d", ".", "ts">>}

\* the absolute directories of depth 1 .. n
RECURSIVE DirsOfDepth(_)
DirsOfDepth(n) ==
    IF n = 0 THEN {<<>>}
    ELSE {d \o <<"/">> \o name : d \in DirsOfDepth(n - 1), name \in DirNames}
Dirs == UNION {DirsOfDepth(n) : n \in 1..MaxDepth}

PathInit ==
    /\ fpc = "in"
    /\ args \in [fn : {"getRelativeImportPath"}, fromDir : Dirs,
                  toFile : {d \o <<"/">> \o f : d \in Dirs, f \in FileNames}]
    /\ result = NoResult
    /\ npc = "idle" /\ nameIn = [explicit |-> <<>>, props |-> <<>>] /\ nameOut = NoNames
    /\ file = NoFile /\ exported = <<>> /\ reqs = 0 /\ last = NoCall
    /\ options = NoOptions
    /\ PageIdle

\* one call of getRelativeImportPath (508-520)
RelativePath ==
    /\ fpc = "in"
    /\ args.fn = "getRelativeImportPath"
    /\ fpc' = "out"
    /\ result' = [fn |-> args.fn, path |-> getRelativeImportPath(args.fromDir, args.toFile)]
    /\ UNCHANGED <<args, npc, nameIn, nameOut, file, exported, reqs, last, options, runtime, host, client>>

PathNext == RelativePath

SpecPath == PathInit /\ [][PathNext]_vars

\* the segments dir is left with after walking the segments of rel from it
RECURSIVE Walk(_, _)
Walk(dir, rel) ==
    IF rel = <<>> THEN dir
    ELSE IF Head(rel) = <<".">> \/ Head(rel) = <<>> THEN Walk(dir, Tail(rel))
    ELSE IF Head(rel) = <<".", ".">>
         THEN Walk(IF dir = <<>> THEN dir ELSE SubSeq(dir, 1, Len(dir) - 1), Tail(rel))
    ELSE Walk(Append(dir, Head(rel)), Tail(rel))

\* the file name without its last extension
Stem(f) == SubSeq(f, 1, LastIndexOf(f, ".") - 1)

\* C12: the path returned by relativeImportPath starts with a '.' or '..' segment
\* (also when the first directory's name begins with a dot), leads from fromDir
\* to toFile without its extension, and its directory part is the literal '.'
\* when toFile lies in fromDir.
C12_RelativeFromDot ==
    (fpc = "out" /\ result.fn = "getRelativeImportPath") =>
        LET segs == SplitOn(result.path, "/", 1, <<>>)
            toSegs == Segments(args.toFile)
        IN  /\ segs[1] \in {<<".">>, <<".", ".">>}
            /\ Walk(Segments(args.fromDir), segs)
                   = SubSeq(toSegs, 1, Len(toSegs) - 1) \o <<Stem(toSegs[Len(toSegs)])>>
            /\ Segments(args.fromDir) = SubSeq(toSegs, 1, Len(toSegs) - 1)
                   => segs = <<<<".">>, Stem(toSegs[Len(toSegs)])>>

----------------------------------------------------------------------------
(* Claims on the paths of the story file *)

\* the file the registry (or the request) gives for an imported name, as segments
\* without the extension
ImportedFile(data, name) ==
    LET f == IF name = data.meta.componentName THEN data.meta.filePath
             ELSE RegistryGet(data.registry, name)
        segs == Segments(f)
    IN  SubSeq(segs, 1, Len(segs) - 1) \o <<Stem(segs[Len(segs)])>>

\* C13: every import path of the content leads from the directory the story file
\* is written in to the imported component's file, and the file path the
\* generator returns is the path the host writes to, also with a stories
\* subdirectory configured.
C13_ImportsRelativeToWrittenFile ==
    last.done =>
        /\ last.story.filePath = last.outputPath
        /\ \A k \in DOMAIN last.story.imports :
               Walk(Segments(dirname(last.outputPath)),
                    SplitOn(last.story.imports[k].path, "/", 1, <<>>))
                   = ImportedFile(last.data, importNameOf(last.story.imports[k]))

----------------------------------------------------------------------------
(* transform.ts: createHash *)

\* data.charCodeAt(i) for the characters of paths and identifiers
CharCode(c) ==
    IF c \in Upper THEN 64 + (CHOOSE i \in DOMAIN UpperSeq : UpperSeq[i] = c)
    ELSE IF c \in Lower THEN 96 + (CHOOSE i \in DOMAIN LowerSeq : LowerSeq[i] = c)
    ELSE IF c \in Digit THEN 47 + (CHOOSE i \in DOMAIN DigitSeq : DigitSeq[i] = c)
    ELSE CASE c = "$" -> 36 [] c = "." -> 46 [] c = "/" -> 47 [] c = ":" -> 58
           [] c = "_" -> 95

\* A 32-bit integer is held as its two 16-bit halves [hi, lo] (two's complement),
\* so that no intermediate value leaves the 32 bits.
\* hash = (hash << 5) - hash + char; hash = hash & hash (14-15)
HashStep(hash, char) ==
    LET lo == hash.lo * 31 + char
        hi == hash.hi * 31 + (lo \div 65536)
    IN  [hi |-> hi % 65536, lo |-> lo % 65536]

\* the loop of lines 12-16, from character i on
RECURSIVE HashFrom(_, _, _)
HashFrom(data, i, hash) ==
    IF i > Len(data) THEN hash
    ELSE HashFrom(data, i + 1, HashStep(hash, CharCode(data[i])))

\* Math.abs(hash): 2^31 for the most negative value
HashAbs(hash) ==
    IF hash.hi < 32768 THEN hash
    ELSE IF hash.lo = 0 THEN [hi |-> 65536 - hash.hi, lo |-> 0]
    ELSE [hi |-> 65535 - hash.hi, lo |-> 65536 - hash.lo]

\* n.toString(36) for n >= 0
RECURSIVE Base36(_)
Base36(n) ==
    LET t == (n.hi % 36) * 65536 + n.lo
        q == [hi |-> n.hi \div 36, lo |-> t \div 36]
        d == t % 36
        digit == IF d < 10 THEN DigitSeq[d + 1] ELSE LowerSeq[d - 9]
    IN  IF q.hi = 0 /\ q.lo = 0 THEN <<digit>> ELSE Append(Base36(q), digit)

\* createHash (10-18)
createHash(data) == Base36(HashAbs(HashFrom(data, 1, [hi |-> 0, lo |-> 0])))

\* sourceId (300)
sourceIdOf(filePath, componentName) == createHash(filePath \o <<":">> \o componentName)

----------------------------------------------------------------------------
(* createHash applied to the keys of two components *)

MaxIdLen == 2        \* longest component name that is enumerated

IdChars == {"A", "B", "a"}
ComponentIds == {n \in SeqsUpTo(IdChars, MaxIdLen) : n # <<>> /\ n[1] \in Upper}
ModulePaths == {<<"/", "s", "/", "A", "a", ".", "t", "s", "x">>,
                <<"/", "s", "/", "B", "B", ".", "t", "s", "x">>}
HashKeys == [filePath : ModulePaths, componentName : ComponentIds]

HashInit ==
    /\ fpc = "in"
    /\ args \in [fn : {"createHash"}, first : HashKeys, second : HashKeys]
    /\ result = NoResult
    /\ npc = "idle" /\ nameIn = [explicit |-> <<>>, props |-> <<>>] /\ nameOut = NoNames
    /\ file = NoFile /\ exported = <<>> /\ reqs = 0 /\ last = NoCall
    /\ options = NoOptions
    /\ PageIdle

\* the sourceIds wrapComponent computes for two components (300)
HashBoth ==
    /\ fpc = "in"
    /\ args.fn = "createHash"
    /\ fpc' = "out"
    /\ result' = [fn |-> args.fn,
                  first |-> sourceIdOf(args.first.filePath, args.first.componentName),
                  second |-> sourceIdOf(args.second.filePath, args.second.componentName)]
    /\ UNCHANGED <<args, npc, nameIn, nameOut, file, exported, reqs, last, options, runtime, host, client>>

HashNext == HashBoth

SpecHash == HashInit /\ [][HashNext]_vars

\* C19: two different (filePath, componentName) pairs never get the same sourceId.
C19_NoCollision ==
    (fpc = "out" /\ result.fn = "createHash" /\ args.first # args.second)
        => result.first # result.second

----------------------------------------------------------------------------
(* transform.ts: the syntax tree.  A module is the sequence of its top-level *)
(* statements; an expression is [type, name, arguments, jsx, meta]; jsx says *)
(* that JSX occurs inside it and meta is the value of an object literal.     *)

NoMeta == [componentName |-> <<>>, filePath |-> <<>>, sourceId |-> <<>>,
           isDefaultExport |-> FALSE]
Expr(type, name, arguments, jsx) ==
    [type |-> type, name |-> name, arguments |-> arguments, jsx |-> jsx, meta |-> NoMeta]
NoExpr == Expr("none", <<>>, <<>>, FALSE)
ArrowFunctionExpression(jsx) == Expr("ArrowFunctionExpression", <<>>, <<>>, jsx)
FunctionExpression(id, jsx) == Expr("FunctionExpression", id, <<>>, jsx)
\* id <<>> is the declaration without a name: export default function () {}
FunctionDeclaration(id, jsx) == Expr("FunctionDeclaration", id, <<>>, jsx)
Identifier(name) == Expr("Identifier", name, <<>>, FALSE)
NumericLiteral == Expr("NumericLiteral", <<>>, <<>>, FALSE)
\* a call whose callee is the identifier callee
CallExpression(callee, arguments) ==
    Expr("CallExpression", callee, arguments,
         \E k \in DOMAIN arguments : arguments[k].jsx)
ObjectExpression(meta) == [NoExpr EXCEPT !.type = "ObjectExpression", !.meta = meta]

VariableDeclarator(id, init) == [id |-> id, init |-> init]
Statement(type, declaration, declarations, source, specifiers) ==
    [type |-> type, declaration |-> declaration, declarations |-> declarations,
     source |-> source, specifiers |-> specifiers]
ImportDeclaration(specifiers, source) ==
    Statement("ImportDeclaration", NoExpr, <<>>, source, specifiers)
FunctionStatement(id, jsx) ==
    Statement("FunctionDeclaration", FunctionDeclaration(id, jsx), <<>>, "", <<>>)
VariableDeclaration(declarations) ==
    Statement("VariableDeclaration", NoExpr, declarations, "", <<>>)
ExportNamedFunction(id, jsx) ==
    Statement("ExportNamedDeclaration", FunctionDeclaration(id, jsx), <<>>, "", <<>>)
ExportNamedVariables(declarations) ==
    Statement("ExportNamedDeclaration", NoExpr, declarations, "", <<>>)
ExportDefaultDeclaration(declaration) ==
    Statement("ExportDefaultDeclaration", declaration, <<>>, "", <<>>)
\* text that is no statement of the language
Unparsable == Statement("SyntaxError", NoExpr, <<>>, "", <<>>)

MemoName == <<"memo">>
ForwardRefName == <<"forwardRef">>
HighlighterName == <<"withComponentHighlighter">>
ReactBinding == <<"R", "e", "a", "c", "t">>
RuntimeModule == "virtual:component-highlighter/runtime"

\* name[0] === name[0].toUpperCase() && name[0] !== name[0].toLowerCase() (211-212, 220)
startsUpperCase(name) ==
    name # <<>> /\ name[1] = ToUpper(name[1]) /\ name[1] # ToLower(name[1])

\* isComponentFunction (208-214)
isComponentFunction(node) == node.name # <<>> /\ startsUpperCase(node.name)

\* isMemoWrapper (250-257), isForwardRefWrapper (259-266)
isMemoWrapper(node) == node.type = "CallExpression" /\ node.name = MemoName
isForwardRefWrapper(node) == node.type = "CallExpression" /\ node.name = ForwardRefName

\* isComponentVariable (216-231)
isComponentVariable(node) ==
    /\ startsUpperCase(node.id)
    /\ node.init.type # "none"
    /\ \/ node.init.type \in {"ArrowFunctionExpression", "FunctionExpression"}
       \/ isMemoWrapper(node.init)
       \/ isForwardRefWrapper(node.init)

\* isComponentDeclaration (233-248)
isComponentDeclaration(node) ==
    IF node.type = "FunctionDeclaration" /\ isComponentFunction(node) THEN TRUE
    ELSE IF node.type \in {"ArrowFunctionExpression", "FunctionExpression"} THEN TRUE
    ELSE IF node.type = "Identifier" THEN node.name[1] = ToUpper(node.name[1])
    ELSE IF node.type = "CallExpression"
         THEN isMemoWrapper(node) \/ isForwardRefWrapper(node)
    ELSE FALSE

\* getDeclarationName (272-285): [threw, name], name <<>> for null; reading the
\* type of the first argument of a call without arguments throws
getDeclarationName(node) ==
    IF node.type = "FunctionDeclaration" /\ node.name # <<>>
    THEN [threw |-> FALSE, name |-> node.name]
    ELSE IF node.type = "Identifier" THEN [threw |-> FALSE, name |-> node.name]
    ELSE IF node.type = "CallExpression" /\ node.name \in {MemoName, ForwardRefName}
         THEN IF node.arguments = <<>> THEN [threw |-> TRUE, name |-> <<>>]
              ELSE IF node.arguments[1].type = "ArrowFunctionExpression"
                   THEN [threw |-> FALSE,
                         name |-> <<"A","n","o","n","y","m","o","u","s","W","r","a","p","p","e","d">>]
              ELSE [threw |-> FALSE, name |-> <<>>]
    ELSE [threw |-> FALSE, name |-> <<>>]

----------------------------------------------------------------------------
(* transform.ts: transform and wrapComponent *)

\* an element of componentsToWrap; node is the statement stmt, or its declarator
\* decl when nodeType is "VariableDeclarator"
Candidate(name, stmt, decl, nodeType, isDefaultExport, init) ==
    [name |-> name, stmt |-> stmt, decl |-> decl, nodeType |-> nodeType,
     isDefaultExport |-> isDefaultExport,
     isMemo |-> isMemoWrapper(init), isForwardRef |-> isForwardRefWrapper(init)]

\* declarations.forEach(decl => { if (isComponentVariable(decl)) push }) (77-91, 130-144)
DeclaratorCandidates(st, i, nodeType) ==
    SelectSeq([j \in DOMAIN st.declarations |->
                  Candidate(st.declarations[j].id, i, j, nodeType, FALSE,
                            st.declarations[j].init)],
              LAMBDA c : isComponentVariable(st.declarations[c.decl]))

DefaultExportName == <<"D","e","f","a","u","l","t","E","x","p","o","r","t">>

\* what the visitors of lines 64-147 push for statement i
Visit(body, i) ==
    LET st == body[i]
        d == st.declaration
    IN  CASE st.type = "FunctionDeclaration" ->
                IF isComponentFunction(d)
                THEN <<Candidate(d.name, i, 0, "FunctionDeclaration", FALSE, NoExpr)>>
                ELSE <<>>
          [] st.type = "VariableDeclaration" ->
                DeclaratorCandidates(st, i, "VariableDeclarator")
          [] st.type = "ExportDefaultDeclaration" ->
                IF isComponentDeclaration(d)
                THEN <<Candidate(IF getDeclarationName(d).name = <<>>
                                 THEN DefaultExportName ELSE getDeclarationName(d).name,
                                 i, 0, "ExportDefaultDeclaration", TRUE, d)>>
                ELSE <<>>
          [] st.type = "ExportNamedDeclaration" ->
                IF d.type = "FunctionDeclaration"
                THEN IF isComponentFunction(d)
                     THEN <<Candidate(d.name, i, 0, "ExportNamedDeclaration", FALSE, NoExpr)>>
                     ELSE <<>>
                ELSE DeclaratorCandidates(st, i, "ExportNamedDeclaration")
          [] OTHER -> <<>>

\* componentsToWrap after the traversal (48-148)
componentsToWrap(body) == Flatten([i \in DOMAIN body |-> Visit(body, i)])

\* the traversal throws in getDeclarationName (98)
traverseThrows(body) ==
    \E i \in DOMAIN body :
        /\ body[i].type = "ExportDefaultDeclaration"
        /\ isComponentDeclaration(body[i].declaration)
        /\ getDeclarationName(body[i].declaration).threw

\* hasJsx (49-54)
hasJsx(body) ==
    \E i \in DOMAIN body :
        \/ body[i].declaration.jsx
        \/ \E j \in DOMAIN body[i].declarations : body[i].declarations[j].init.jsx

\* hasReactImport (55-63)
hasReactImport(body) ==
    \E i \in DOMAIN body :
        body[i].type = "ImportDeclaration" /\ body[i].source \in {"react", "React"}

\* withComponentHighlighter(expression, metaObject)
Wrapped(expression, meta) ==
    CallExpression(HighlighterName, <<expression, ObjectExpression(meta)>>)

\* wrapComponent (287-416): [threw, body].  strict: the node builder rejects a
\* function declaration as the argument of a call
wrapComponent(body, c, filePath, strict) ==
    LET st == body[c.stmt]
        d == st.declaration
        meta == [componentName |-> c.name, filePath |-> filePath,
                 sourceId |-> sourceIdOf(filePath, c.name),
                 isDefaultExport |-> c.isDefaultExport]
        asConst == <<VariableDeclarator(d.name, Wrapped(FunctionExpression(d.name, d.jsx), meta))>>
        ok(b) == [threw |-> FALSE, body |-> b]
    IN  IF c.isDefaultExport
        THEN IF \/ d.type \in {"FunctionDeclaration", "ArrowFunctionExpression",
                                "FunctionExpression"}
                \/ d.type = "CallExpression" /\ (c.isMemo \/ c.isForwardRef)
             THEN IF d.type = "FunctionDeclaration" /\ strict
                  THEN [threw |-> TRUE, body |-> body]
                  ELSE ok([body EXCEPT ![c.stmt].declaration = Wrapped(d, meta)])
             ELSE ok(body)
        ELSE IF c.nodeType = "ExportNamedDeclaration"
        THEN IF d.type = "FunctionDeclaration"
             THEN ok([body EXCEPT ![c.stmt] = ExportNamedVariables(asConst)])
             ELSE ok([body EXCEPT ![c.stmt].declarations =
                         [j \in DOMAIN st.declarations |->
                             IF st.declarations[j].init.type # "none"
                             THEN VariableDeclarator(st.declarations[j].id,
                                                     Wrapped(st.declarations[j].init, meta))
                             ELSE st.declarations[j]]])
        ELSE IF c.nodeType = "FunctionDeclaration"
        THEN ok([body EXCEPT ![c.stmt] = VariableDeclaration(asConst)])
        ELSE IF st.declarations[c.decl].init.type # "none"
        THEN ok([body EXCEPT ![c.stmt].declarations[c.decl].init =
                    Wrapped(st.declarations[c.decl].init, meta)])
        ELSE ok(body)

\* componentsToWrap.forEach(... wrapComponent ...) (178-190)
RECURSIVE wrapAll(_, _, _, _)
wrapAll(body, cs, filePath, strict) ==
    IF cs = <<>> THEN [threw |-> FALSE, body |-> body]
    ELSE LET r == wrapComponent(body, Head(cs), filePath, strict)
         IN  IF r.threw THEN r ELSE wrapAll(r.body, Tail(cs), filePath, strict)

\* the names a statement binds in the module's scope
BoundNames(st) ==
    CASE st.type = "ImportDeclaration" -> st.specifiers
      [] st.type \in {"FunctionDeclaration", "ExportNamedDeclaration", "VariableDeclaration",
                      "ExportDefaultDeclaration"} ->
            (IF st.declaration.type = "FunctionDeclaration" /\ st.declaration.name # <<>>
             THEN <<st.declaration.name>> ELSE <<>>)
            \o [j \in DOMAIN st.declarations |-> st.declarations[j].id]
      [] OTHER -> <<>>

\* parse (23-31): [threw, body]; the parser rejects text that is no statement, a
\* name declared twice, and a second default export
parse(code) ==
    LET names == Flatten([i \in DOMAIN code |-> BoundNames(code[i])])
        defaults == {i \in DOMAIN code : code[i].type = "ExportDefaultDeclaration"}
    IN  [threw |-> \/ \E i \in DOMAIN code : code[i].type = "SyntaxError"
                   \/ Cardinality(Range(names)) # Len(names)
                   \/ Cardinality(defaults) > 1,
         body |-> code]

ReactImport == ImportDeclaration(<<ReactBinding>>, "react")
HighlighterImport == ImportDeclaration(<<HighlighterName>>, RuntimeModule)

\* threw: an exception reaches the caller; warned: console.warn was called (202)
noChange == [threw |-> FALSE, warned |-> FALSE, changed |-> FALSE, body |-> <<>>]

\* the body of the try block (22-198): threw, or what is returned
tryTransform(code, id, strict) ==
    LET ast == parse(code)
        cs == componentsToWrap(ast.body)
        w == wrapAll(ast.body, cs, id, strict)
        imports == <<HighlighterImport>>
                   \o (IF hasReactImport(ast.body) THEN <<>> ELSE <<ReactImport>>)
    IN  IF ast.threw \/ traverseThrows(ast.body) THEN [noChange EXCEPT !.threw = TRUE]
        ELSE IF ~ hasJsx(ast.body) \/ Len(cs) = 0 THEN noChange
        ELSE IF w.threw THEN [noChange EXCEPT !.threw = TRUE]
        ELSE [noChange EXCEPT !.changed = TRUE, !.body = imports \o w.body]

\* transform without its catch block
transformNoCatch(code, id, strict) == tryTransform(code, id, strict)

\* transform (20-206)
transform(code, id, strict) ==
    IF tryTransform(code, id, strict).threw THEN [noChange EXCEPT !.warned = TRUE]
    ELSE tryTransform(code, id, strict)

----------------------------------------------------------------------------
(* transform applied to small modules, and applied again to its own output *)

MaxStmts == 2        \* most top-level statements of an enumerated module

NameA == <<"A">>
NameB == <<"B">>
NameH == <<"h">>
NameUnderscore == <<"_", "a">>
NameDollar == <<"$", "a">>

\* the statements the modules are built from
StatementPool ==
    { ReactImport,
      HighlighterImport,
      FunctionStatement(NameA, TRUE),
      FunctionStatement(NameH, TRUE),
      ExportNamedFunction(NameB, TRUE),
      ExportNamedFunction(NameB, FALSE),
      ExportDefaultDeclaration(FunctionDeclaration(NameA, TRUE)),
      VariableDeclaration(<<VariableDeclarator(NameA, ArrowFunctionExpression(TRUE))>>),
      VariableDeclaration(<<VariableDeclarator(NameUnderscore, ArrowFunctionExpression(TRUE))>>),
      ExportNamedVariables(<<VariableDeclarator(NameA, ArrowFunctionExpression(TRUE)),
                             VariableDeclarator(NameB,
                                 CallExpression(MemoName, <<ArrowFunctionExpression(TRUE)>>))>>),
      ExportNamedVariables(<<VariableDeclarator(NameB, ArrowFunctionExpression(TRUE)),
                             VariableDeclarator(NameH, NumericLiteral)>>),
      ExportDefaultDeclaration(ArrowFunctionExpression(TRUE)),
      ExportDefaultDeclaration(Identifier(NameA)),
      ExportDefaultDeclaration(Identifier(NameUnderscore)),
      ExportDefaultDeclaration(Identifier(NameDollar)),
      ExportDefaultDeclaration(Identifier(NameH)),
      ExportDefaultDeclaration(CallExpression(MemoName, <<>>)),
      Unparsable }

Modules == SeqsUpTo(StatementPool, MaxStmts)
ModuleId == <<"/", "s", "/", "A", "a", ".", "t", "s", "x">>

TransformInit ==
    /\ fpc = "in"
    /\ args \in [fn : {"transform"}, code : Modules, id : {ModuleId}, again : {FALSE}]
    /\ result = NoResult
    /\ npc = "idle" /\ nameIn = [explicit |-> <<>>, props |-> <<>>] /\ nameOut = NoNames
    /\ file = NoFile /\ exported = <<>> /\ reqs = 0 /\ last = NoCall
    /\ options = NoOptions
    /\ PageIdle

\* one call of transform(code, id)
Transform ==
    /\ fpc = "in"
    /\ args.fn = "transform"
    /\ \E strict \in BOOLEAN :
          result' = [fn |-> args.fn, out |-> transform(args.code, args.id, strict)]
    /\ fpc' = "out"
    /\ UNCHANGED <<args, npc, nameIn, nameOut, file, exported, reqs, last, options, runtime, host, client>>

\* the bundler hands the rewritten module to transform once more
Retransform ==
    /\ fpc = "out"
    /\ args.fn = "transform"
    /\ ~ args.again
    /\ result.out.changed
    /\ args' = [args EXCEPT !.code = result.out.body, !.again = TRUE]
    /\ result' = NoResult
    /\ fpc' = "in"
    /\ UNCHANGED <<npc, nameIn, nameOut, file, exported, reqs, last, options, runtime, host, client>>

TransformNext == Transform \/ Retransform

SpecTransform == TransformInit /\ [][TransformNext]_vars

\* transform has returned
Transformed == fpc = "out" /\ args.fn = "transform"

\* the names the statements of a module declare, imports left out
DeclaredNames(code) ==
    Range(Flatten([i \in DOMAIN code |->
                      IF code[i].type = "ImportDeclaration" THEN <<>>
                      ELSE BoundNames(code[i])]))

\* C14: transform returns no change for every module without JSX and for every
\* module with JSX that declares no top-level name starting with an uppercase
\* letter (only lowercase functions, an anonymous default-exported arrow
\* function, a default-exported identifier starting with '_' or '$').
C14_NoChangeWithoutUppercaseBinding ==
    (/\ Transformed
     /\ \/ ~ hasJsx(args.code)
        \/ ~ \E n \in DeclaredNames(args.code) : startsUpperCase(n))
        => ~ result.out.changed

\* C15: transform never throws to its caller; it returns a rewritten module or
\* no change, and every failure (of the parser, of the traversal, of the
\* wrapping) yields no change.
C15_NeverThrows ==
    Transformed =>
        /\ ~ result.out.threw
        /\ result.out.warned => ~ result.out.changed
        /\ ~ result.out.changed => result.out.body = <<>>

\* the module was parsed and the wrapping of a component failed
C15_Witness ==
    /\ Transformed
    /\ result.out.warned
    /\ ~ parse(args.code).threw
    /\ ~ traverseThrows(args.code)
    /\ Len(componentsToWrap(args.code)) > 0

\* the places of a statement that hold a definition: its declaration, then its
\* declarators
Places(st) ==
    (IF st.declaration.type = "none" THEN <<>>
     ELSE <<[id |-> IF st.declaration.type = "FunctionDeclaration"
                    THEN st.declaration.name ELSE <<>>,
             expr |-> st.declaration,
             isDefault |-> st.type = "ExportDefaultDeclaration",
             declarator |-> FALSE]>>)
    \o [j \in DOMAIN st.declarations |->
           [id |-> st.declarations[j].id, expr |-> st.declarations[j].init,
            isDefault |-> FALSE, declarator |-> TRUE]]

\* the metas of the withComponentHighlighter calls around an expression,
\* outermost first
RECURSIVE MetasOf(_)
MetasOf(expr) ==
    IF expr.type = "CallExpression" /\ expr.name = HighlighterName
    THEN <<expr.arguments[2].meta>> \o MetasOf(expr.arguments[1])
    ELSE <<>>

\* the definition at place p is what the module exports as default
IsDefaultExported(body, p) ==
    \/ p.isDefault
    \/ /\ p.id # <<>>
       /\ \E i \in DOMAIN body :
             /\ body[i].type = "ExportDefaultDeclaration"
             /\ body[i].declaration.type = "Identifier"
             /\ body[i].declaration.name = p.id

\* how a statement exports, and the names it declares
ExportedAs(st) ==
    [kind |-> IF st.type \in {"ExportNamedDeclaration", "ExportDefaultDeclaration"}
              THEN st.type ELSE "none",
     names |-> IF st.type = "ExportDefaultDeclaration" THEN {} ELSE Range(BoundNames(st))]

\* C16: every wrapped component is exported under the same name and in the
\* same way as before, and the isDefaultExport of its meta is true exactly when
\* the component is the default export of the module, also when it is declared
\* at top level and exported by a separate export default Name.
C16_DefaultExportFlag ==
    (Transformed /\ result.out.changed) =>
        LET out == result.out.body
            k == Len(out) - Len(args.code)
        IN  /\ \A i \in DOMAIN args.code : ExportedAs(out[i + k]) = ExportedAs(args.code[i])
            /\ \A i \in DOMAIN out : \A n \in DOMAIN Places(out[i]) :
                  \A m \in Range(MetasOf(Places(out[i])[n].expr)) :
                      m.isDefaultExport = IsDefaultExported(out, Places(out[i])[n])

\* the place p of statement st defines a component
ComponentDefinition(st, p) ==
    IF p.declarator THEN isComponentVariable([id |-> p.id, init |-> p.expr])
    ELSE IF st.type = "ExportDefaultDeclaration"
         THEN p.expr.type # "Identifier" /\ isComponentDeclaration(p.expr)
    ELSE isComponentFunction(p.expr)

\* C17: in a module with several components every component definition is
\* wrapped by exactly one withComponentHighlighter call whose meta carries its
\* own name and sourceId, and no other initializer is wrapped, also for several
\* declarators of one exported const.
C17_EachWrappedOnce ==
    (Transformed /\ ~ args.again /\ result.out.changed) =>
        LET out == result.out.body
            k == Len(out) - Len(args.code)
        IN  \A i \in DOMAIN args.code : \A n \in DOMAIN Places(args.code[i]) :
                LET p == Places(args.code[i])[n]
                    ms == MetasOf(Places(out[i + k])[n].expr)
                IN  IF ComponentDefinition(args.code[i], p)
                    THEN /\ Len(ms) = 1
                         /\ p.id # <<>> => ms[1].componentName = p.id
                         /\ ms[1].sourceId = sourceIdOf(args.id, ms[1].componentName)
                    ELSE ms = <<>>

\* the statements of a module that import withComponentHighlighter from the runtime
HighlighterImports(body) ==
    {i \in DOMAIN body : /\ body[i].type = "ImportDeclaration"
                         /\ body[i].source = RuntimeModule
                         /\ HighlighterName \in Range(body[i].specifiers)}

\* C18: the rewritten module holds exactly one import of
\* withComponentHighlighter from the runtime module, also when the input
\* already holds that import, as on a re-transform.
C18_OneHighlighterImport ==
    (Transformed /\ result.out.changed) =>
        Cardinality(HighlighterImports(result.out.body)) = 1

----------------------------------------------------------------------------
(* the brace matching loop applied to attribute values that hold one literal *)

MaxLitLen == 3       \* most characters between the quotes of the literal

LitChars == {"a", "{", "}", "'", "\"", "\\", Backquote}

\* c from item i on is the inside of a literal in quotes q: a backslash escapes
\* the character after it, and q occurs only escaped
RECURSIVE WellEscaped(_, _, _)
WellEscaped(c, i, q) ==
    IF i > Len(c) THEN TRUE
    ELSE IF c[i] = "\\" THEN i + 1 <= Len(c) /\ WellEscaped(c, i + 2, q)
    ELSE c[i] # q /\ WellEscaped(c, i + 1, q)

\* the literals in quotes q
LiteralsIn(q) ==
    {<<q>> \o c \o <<q>> : c \in {x \in SeqsUpTo(LitChars, MaxLitLen) : WellEscaped(x, 1, q)}}

Literals == UNION {LiteralsIn(q) : q \in Quotes}

\* <K on={() => f(literal)}/>
ScanPrefix == <<"<", "K", " ", "o", "n", "=", "{">>
ScanValue(literal) == <<"(", ")", "=", ">", "f", "(">> \o literal \o <<")">>
ScanSuffix == <<"}", "/", ">">>
ScanSource(literal) == ScanPrefix \o ScanValue(literal) \o ScanSuffix

ScanInit ==
    /\ fpc = "in"
    /\ args \in [fn : {"scan"}, literal : Literals]
    /\ result = NoResult
    /\ npc = "idle" /\ nameIn = [explicit |-> <<>>, props |-> <<>>] /\ nameOut = NoNames
    /\ file = NoFile /\ exported = <<>> /\ reqs = 0 /\ last = NoCall
    /\ options = NoOptions
    /\ PageIdle

\* the scanners applied to the source of one element
Scan ==
    /\ fpc = "in"
    /\ args.fn = "scan"
    /\ result' = [fn |-> args.fn,
                  braceEnd |-> ScanBrace(ScanSource(args.literal), Len(ScanPrefix),
                                         0, FALSE, ""),
                  has |-> hasFunctionHandlersInJSX(ScanSource(args.literal)),
                  replaced |-> replaceFunctionHandlersInJSX(ScanSource(args.literal))]
    /\ fpc' = "out"
    /\ UNCHANGED <<args, npc, nameIn, nameOut, file, exported, reqs, last, options, runtime, host, client>>

ScanNext == Scan

SpecScan == ScanInit /\ [][ScanNext]_vars

\* C20: the scanner stops at the closing brace that matches the opening brace
\* of name={...}; braces and quotes inside a single-quoted, double-quoted or
\* template literal of the value, also one that holds escaped quotes or ends
\* with an escaped backslash, do not change the depth, so the whole value of the
\* handler is replaced.
C20_LiteralsDoNotMoveTheBrace ==
    (fpc = "out" /\ result.fn = "scan") =>
        /\ result.braceEnd = Len(ScanPrefix) + Len(ScanValue(args.literal)) + 1
        /\ result.has
        /\ result.replaced = ScanPrefix \o FnCall \o ScanSuffix

----------------------------------------------------------------------------
(* runtime.ts: serializeProps and serializeValue on a live object graph *)

MaxNodes == 2        \* most objects and arrays of a live props graph

\* a live value: a primitive, a function, a React element, or a reference to
\* the object or array number n of the graph
NodeNames == <<"n1", "n2", "n3">>
Nodes == {NodeNames[i] : i \in 1..MaxNodes}
PropsBag == NodeNames[1]
LiveValues == {"primitive", "function", "element"} \cup Nodes

\* an object or array that holds one value
LiveNodes == [kind : {"object", "array"}, item : LiveValues]

\* the props bag is a plain object
Heaps == {h \in [Nodes -> LiveNodes] : h[PropsBag].kind = "object"}

\* the engine's call stack: deeper than every graph without a cycle
StackDepth == MaxNodes + 1

FailedToSerialize == <<"{", "/", "*", " ", "Failed to serialize", " ", "*", "/", "}">>

\* the two returns of the element branch (152-159): failed says that
\* reactElementToJSXString threw
serializeElement(failed) ==
    [threw |-> FALSE,
     tree |-> IF failed
              THEN [isJSX |-> TRUE, source |-> FailedToSerialize, componentRefs |-> <<>>]
              ELSE [isJSX |-> TRUE, source |-> <<"<", "K", "/", ">">>,
                    componentRefs |-> <<<<"K">>>>]]

\* serializeValue (130-233) at call depth d: [threw, tree]; threw is the
\* RangeError of a call stack that is used up
RECURSIVE serializeValue(_, _, _, _)
serializeValue(heap, value, failed, d) ==
    IF d > StackDepth THEN [threw |-> TRUE, tree |-> <<>>]
    ELSE IF value = "element" THEN serializeElement(failed)
    ELSE IF value \in Nodes
    THEN IF heap[value].kind = "array" /\ heap[value].item = "element"
         THEN serializeElement(failed)
         ELSE LET r == serializeValue(heap, heap[value].item, failed, d + 1)
              IN  IF r.threw THEN r
                  ELSE [threw |-> FALSE, tree |-> [kind |-> heap[value].kind, item |-> r.tree]]
    ELSE IF value = "function"
    THEN [threw |-> FALSE, tree |-> [isFunction |-> TRUE, name |-> <<"anonymous">>]]
    ELSE [threw |-> FALSE, tree |-> value]

\* serializeProps (117-125)
serializeProps(heap, props, failed) ==
    LET r == serializeValue(heap, heap[props].item, failed, 1)
    IN  IF r.threw THEN r ELSE [threw |-> FALSE, tree |-> [kind |-> "object", item |-> r.tree]]

SerializeInit ==
    /\ fpc = "in"
    /\ args \in [fn : {"serializeProps"}, heap : Heaps]
    /\ result = NoResult
    /\ npc = "idle" /\ nameIn = [explicit |-> <<>>, props |-> <<>>] /\ nameOut = NoNames
    /\ file = NoFile /\ exported = <<>> /\ reqs = 0 /\ last = NoCall
    /\ options = NoOptions
    /\ PageIdle

\* registerInstance serializes the props of a mounted component (238)
Serialize ==
    /\ fpc = "in"
    /\ args.fn = "serializeProps"
    /\ \E failed \in BOOLEAN :
          result' = [fn |-> args.fn, failed |-> failed,
                     out |-> serializeProps(args.heap, PropsBag, failed)]
    /\ fpc' = "out"
    /\ UNCHANGED <<args, npc, nameIn, nameOut, file, exported, reqs, last, options, runtime, host, client>>

SerializeNext == Serialize

SpecSerialize == SerializeInit /\ [][SerializeNext]_vars

\* C21: for every live props bag, also one whose objects and arrays contain
\* themselves, the serializer terminates without throwing past its boundary and
\* returns a finite tree; what it cannot serialize is cut off or replaced by
\* the placeholder with empty componentRefs.
C21_SerializerNeverThrows ==
    (fpc = "out" /\ result.fn = "serializeProps") => ~ result.out.threw

----------------------------------------------------------------------------
(* runtime.ts: ComponentHighlighterBoundary, the life of one tracked instance *)

MaxRenders == 2      \* most prop changes of the mounted component

NoId == [sourceId |-> "", random |-> 0]
SourceIds == {"3nv2j", "p0q1"}
LiveProps == {"props1", "props2", "props3"}

\* generateInstanceId (37-39): the random part is new for every call
generateInstanceId(rt) == [sourceId |-> rt.sourceId, random |-> Len(rt.events) + 1]

\* registerInstance (236-257)
registerInstance(rt) ==
    [rt EXCEPT !.registry = @ \cup {[id |-> generateInstanceId(rt), props |-> rt.props]},
               !.events = Append(@, [type |-> "register", id |-> generateInstanceId(rt)])]

\* unregisterInstance (259-275)
unregisterInstance(rt, id) ==
    IF (\E e \in rt.registry : e.id = id) /\ rt.connected
    THEN rt
    ELSE [rt EXCEPT !.registry = {e \in @ : e.id # id},
                    !.events = Append(@, [type |-> "unregister", id |-> id])]

\* updateInstanceProps (277-290)
updateInstanceProps(rt, id) ==
    IF \E e \in rt.registry : e.id = id
    THEN [rt EXCEPT !.registry = {IF e.id = id THEN [e EXCEPT !.props = rt.props] ELSE e
                                    : e \in @},
                    !.events = Append(@, [type |-> "update-props", id |-> id])]
    ELSE rt

\* the cleanup the last run of the first effect returned, called (367-371)
runCleanup(rt) ==
    IF rt.cleanup = NoId THEN rt
    ELSE [unregisterInstance(rt, rt.cleanup) EXCEPT !.cleanup = NoId]

\* the first effect (315-373) with the instanceId of the committed render
trackEffect(rt) ==
    IF rt.instanceId = NoId
    THEN [registerInstance(rt) EXCEPT !.pending = generateInstanceId(rt),
                                      !.cleanup = generateInstanceId(rt)]
    ELSE [rt EXCEPT !.cleanup = NoId]

\* the second effect (375-379)
propsEffect(rt) ==
    IF rt.instanceId # NoId THEN updateInstanceProps(rt, rt.instanceId) ELSE rt

BoundaryInit ==
    /\ runtime \in [on : {TRUE}, sourceId : SourceIds, props : LiveProps,
                     phase : {"new"}, connected : {FALSE}, instanceId : {NoId},
                     pending : {NoId}, cleanup : {NoId}, dirty : {FALSE},
                     renders : {0}, registry : {{}}, events : {<<>>}]
    /\ host = NoHost /\ client = NoClient
    /\ npc = "idle" /\ nameIn = [explicit |-> <<>>, props |-> <<>>] /\ nameOut = NoNames
    /\ file = NoFile /\ exported = <<>> /\ reqs = 0 /\ last = NoCall
    /\ options = NoOptions /\ FnIdle

BoundaryRest ==
    <<npc, nameIn, nameOut, file, exported, reqs, last, options, fpc, args, result,
      host, client>>

\* React commits the first render: the span is in the document
Mount ==
    /\ runtime.on /\ runtime.phase = "new"
    /\ runtime' = [runtime EXCEPT !.phase = "mounted", !.connected = TRUE, !.dirty = TRUE]
    /\ UNCHANGED BoundaryRest

\* React runs the effects of the committed render, whose dependencies changed:
\* the old cleanup, then both effects
RunEffects ==
    /\ runtime.on /\ runtime.phase = "mounted" /\ runtime.dirty
    /\ runtime' = [propsEffect(trackEffect(runCleanup(runtime))) EXCEPT !.dirty = FALSE]
    /\ UNCHANGED BoundaryRest

\* the render that setInstanceId(id) asked for (341)
Rerender ==
    /\ runtime.on /\ runtime.phase = "mounted" /\ runtime.pending # NoId
    /\ runtime' = [runtime EXCEPT !.instanceId = runtime.pending, !.pending = NoId,
                                  !.dirty = TRUE]
    /\ UNCHANGED BoundaryRest

\* the parent renders the component with other props; a pending state update is
\* part of that render
PropsChange ==
    /\ runtime.on /\ runtime.phase = "mounted" /\ runtime.renders < MaxRenders
    /\ \E p \in LiveProps \ {runtime.props} :
          runtime' = [runtime EXCEPT
                         !.props = p, !.renders = @ + 1, !.dirty = TRUE,
                         !.instanceId = IF runtime.pending # NoId THEN runtime.pending ELSE @,
                         !.pending = NoId]
    /\ UNCHANGED BoundaryRest

\* React removes the component: the span leaves the document, then the cleanup
\* of the last effect run is called
Unmount ==
    /\ runtime.on /\ runtime.phase = "mounted"
    /\ runtime' = [runCleanup([runtime EXCEPT !.connected = FALSE]) EXCEPT
                       !.phase = "unmounted", !.pending = NoId, !.dirty = FALSE]
    /\ UNCHANGED BoundaryRest

BoundaryNext == Mount \/ RunEffects \/ Rerender \/ PropsChange \/ Unmount

\* React runs pending effects and pending state updates
SpecBoundary ==
    BoundaryInit /\ [][BoundaryNext]_vars /\ WF_vars(RunEffects) /\ WF_vars(Rerender)

\* C22: every tracked instance that mounts and later unmounts, whatever renders
\* and prop changes come in between, is eventually removed from the registry
\* and an unregister event with its id is dispatched.
C22_UnmountUnregisters ==
    [](runtime.on /\ runtime.phase = "unmounted"
         => <>(/\ runtime.registry = {}
               /\ \A k \in DOMAIN runtime.events :
                     runtime.events[k].type = "register"
                       => \E j \in DOMAIN runtime.events :
                            /\ runtime.events[j].type = "unregister"
                            /\ runtime.events[j].id = runtime.events[k].id))

----------------------------------------------------------------------------
(* component-highlighter-plugin.ts and vite-devtools.ts: create-story calls in *)
(* flight between the page and the dev server                                 *)

\* the payloads of the calls
HostRequests == [storyName : {<<>>, PName}, props : {<<>>}, isDefaultExport : {FALSE}]

\* a handler that never looks at the file on disk
readExistingNever(f) == <<>>

\* existingContent (259-266)
readExisting(f) == IF f.exists THEN f.text ELSE <<>>

\* writeStoryFiles is the plugin option; customEvent says that the server's
\* engine defines the global CustomEvent the handler constructs (314)
HostInit ==
    /\ host \in [on : {TRUE}, writeStoryFiles : BOOLEAN, customEvent : BOOLEAN,
                  calls : {<<>>}, order : {<<>>}, ws : {<<>>}, feedback : {<<>>}]
    /\ runtime = NoRuntime /\ client = NoClient
    /\ npc = "idle" /\ nameIn = [explicit |-> <<>>, props |-> <<>>] /\ nameOut = NoNames
    /\ file = NoFile /\ exported = <<>> /\ reqs = 0 /\ last = NoCall
    /\ options = NoOptions /\ FnIdle

HostRest == <<npc, nameIn, nameOut, reqs, last, options, fpc, args, result, runtime, client>>

\* the overlay emits log-info and the client calls the RPC function (23-35)
CallCreateStory(req) ==
    /\ host.on /\ Len(host.calls) < MaxReqs
    /\ host' = [host EXCEPT !.calls = Append(@, [req |-> req, state |-> "sent",
                                                  written |-> FALSE])]
    /\ UNCHANGED <<file, exported>>
    /\ UNCHANGED HostRest

\* the handler of component-highlighter:create-story (225-320) for call i, from
\* its first line to its last; fsThrows: mkdirSync or writeFileSync throws
HandleCreateStory(i) ==
    /\ host.on /\ i \in DOMAIN host.calls /\ host.calls[i].state = "sent"
    /\ \E fsThrows \in BOOLEAN :
       \E story \in {generateStory([meta |-> [componentName |-> Target,
                                               filePath |-> TargetFile,
                                               isDefaultExport |-> host.calls[i].req.isDefaultExport],
                                     props |-> host.calls[i].req.props,
                                     registry |-> Registry,
                                     storyName |-> host.calls[i].req.storyName,
                                     existingContent |-> readExisting(file)])} :
       \E wrote \in {host.writeStoryFiles /\ ~ fsThrows} :
          /\ host.writeStoryFiles \/ ~ fsThrows
          /\ file' = IF wrote THEN [exists |-> TRUE, text |-> story.content] ELSE file
          /\ exported' = IF wrote THEN Append(exported, NewExportName(story.content))
                         ELSE exported
          /\ host' = [host EXCEPT
                         !.calls[i].state = IF host.customEvent THEN "resolved" ELSE "rejected",
                         !.calls[i].written = wrote,
                         !.order = Append(@, i),
                         !.ws = IF wrote
                                THEN Append(@, [event |-> "component-highlighter:story-created",
                                                call |-> i,
                                                filePath |-> outputPath(TargetFile,
                                                                        options.storiesDir)])
                                ELSE @]
    /\ UNCHANGED HostRest

\* the awaited call returns in the page (37-44)
RpcReturn(i) ==
    /\ host.on /\ i \in DOMAIN host.calls
    /\ host.calls[i].state \in {"resolved", "rejected"}
    /\ host' = [host EXCEPT
                   !.calls[i].state = "done",
                   !.feedback = Append(@, [status |-> IF host.calls[i].state = "resolved"
                                                      THEN "success" ELSE "error",
                                           call |-> i])]
    /\ UNCHANGED <<file, exported>>
    /\ UNCHANGED HostRest

\* the page receives component-highlighter:story-created (48-53)
StoryCreated ==
    /\ host.on /\ host.ws # <<>>
    /\ host' = [host EXCEPT !.ws = Tail(@),
                            !.feedback = Append(@, [status |-> "success",
                                                    call |-> Head(host.ws).call])]
    /\ UNCHANGED <<file, exported>>
    /\ UNCHANGED HostRest

HostNext ==
    \/ \E req \in HostRequests : CallCreateStory(req)
    \/ \E i \in 1..MaxReqs : HandleCreateStory(i)
    \/ \E i \in 1..MaxReqs : RpcReturn(i)
    \/ StoryCreated

SpecHost == HostInit /\ [][HostNext]_vars

\* C23: success feedback is shown for a call only if its story file was
\* written; when the write fails or the host skips it, the caller is told of a
\* failure and sees no success feedback.
C23_TruthfulFeedback ==
    host.on =>
        /\ \A k \in DOMAIN host.feedback :
              host.feedback[k].status = "success" => host.calls[host.feedback[k].call].written
        /\ \A i \in DOMAIN host.calls :
              (host.calls[i].state = "done" /\ ~ host.calls[i].written)
                  => \E k \in DOMAIN host.feedback :
                        host.feedback[k] = [status |-> "error", call |-> i]

\* the calls whose story was written
WrittenCalls == {i \in DOMAIN host.calls : host.calls[i].written}

----------------------------------------------------------------------------
(* component-highlighter-plugin.ts: the story file check-story reports and the *)
(* story file create-story writes                                             *)

StoriesExtensions ==
    <<StoriesTsx, <<".", "stories", ".", "ts">>, <<".", "stories", ".", "jsx">>,
      <<".", "stories", ".", "js">>>>

\* possiblePaths (148-163)
possiblePaths(componentPath, storiesDir) ==
    LET componentDir == dirname(componentPath)
        componentFileName == basename(componentPath, extname(componentPath))
    IN  [k \in DOMAIN StoriesExtensions |->
            pathJoin(componentDir, componentFileName \o StoriesExtensions[k])]
        \o (IF storiesDir # <<>>
            THEN [k \in DOMAIN StoriesExtensions |->
                     pathJoin(pathJoin(componentDir, storiesDir),
                              componentFileName \o StoriesExtensions[k])]
            ELSE <<>>)

\* the loop of lines 165-171: the first path that exists, <<>> for null
storyPath(paths, disk) ==
    IF \E k \in DOMAIN paths : paths[k] \in disk
    THEN paths[Min({k \in DOMAIN paths : paths[k] \in disk})]
    ELSE <<>>

\* every story file the component can have, configured directory or not
StoryFiles == Range(possiblePaths(TargetFile, StoriesDir))

CheckInit ==
    /\ fpc = "in"
    /\ args \in [fn : {"check-story"}, storiesDir : {<<>>, StoriesDir},
                  disk : SUBSET StoryFiles]
    /\ result = NoResult
    /\ npc = "idle" /\ nameIn = [explicit |-> <<>>, props |-> <<>>] /\ nameOut = NoNames
    /\ file = NoFile /\ exported = <<>> /\ reqs = 0 /\ last = NoCall
    /\ options = NoOptions
    /\ PageIdle

\* the page asks check-story for the component, then a create-story request for
\* it is handled: the path reported, the path written, and whether the handler
\* found a file to append to
CheckThenCreate ==
    /\ fpc = "in"
    /\ args.fn = "check-story"
    /\ fpc' = "out"
    /\ result' = [fn |-> args.fn,
                  storyPath |-> storyPath(possiblePaths(TargetFile, args.storiesDir), args.disk),
                  outputPath |-> outputPath(TargetFile, args.storiesDir),
                  isAppend |-> outputPath(TargetFile, args.storiesDir) \in args.disk]
    /\ UNCHANGED <<args, npc, nameIn, nameOut, file, exported, reqs, last, options,
                   runtime, host, client>>

CheckNext == CheckThenCreate

SpecCheck == CheckInit /\ [][CheckNext]_vars

\* C25: check-story and the create handler agree on the story file of a
\* component: the first existing candidate (.stories.tsx, .ts, .jsx, .js beside
\* the component, then in the stories directory) is reported, and a
\* create-story request appends to exactly that file.
C25_SameStoryFile ==
    (fpc = "out" /\ result.fn = "check-story" /\ result.storyPath # <<>>)
        => result.outputPath = result.storyPath /\ result.isAppend

(***************************************************************************)
(* The overlay in the page: dock activation, the keyboard handlers of      *)
(* listeners.ts, selection and the context menu of the overlay module.     *)
(***************************************************************************)

MaxClicks == 2

Instances == {"i1", "i2"}
NoSelection == ""
NoElement == 0

\* hideContextMenu (1077-1091): the element the module variable refers to is
\* removed from the document, and the current handlers from the listeners
hideContextMenu(cl) ==
    [cl EXCEPT !.menus = {m \in @ : m.n # cl.contextMenuElement},
               !.contextMenuElement = NoElement,
               !.listeners = IF cl.currentHandlers THEN @ - 1 ELSE @,
               !.currentHandlers = FALSE]

\* clearSelection (1313-1319)
clearSelection(cl) == hideContextMenu([cl EXCEPT !.selectedComponentId = NoSelection])

\* setHighlightAll (1268-1279)
setHighlightAll(cl, enabled) == [cl EXCEPT !.isHighlightAllActive = enabled]

\* disableOverlay (1155-1163)
disableOverlay(cl) == [cl EXCEPT !.isHighlightAllActive = FALSE]

\* the part of showContextMenu after the story-file check (851-1075): a new
\* element is appended to the document body and becomes the module's element,
\* new close and Escape handlers are added to the document
attachContextMenu(cl, call) ==
    [cl EXCEPT !.menus = @ \cup {call},
               !.contextMenuElement = call.n,
               !.currentHandlers = TRUE,
               !.listeners = @ + 1,
               !.storyFileCache = @ \cup {call.id}]

\* showContextMenu up to its await (843-851): with the component's path in
\* storyFileCache the check returns without leaving the event, otherwise the
\* rest waits for the fetch
showContextMenu(cl, call) ==
    IF call.id \in cl.storyFileCache
    THEN attachContextMenu(hideContextMenu(cl), call)
    ELSE [hideContextMenu(cl) EXCEPT !.pending = @ \cup {call}]

\* selectComponent (1303-1311)
selectComponent(cl, id) ==
    showContextMenu([cl EXCEPT !.selectedComponentId = id, !.clicks = @ + 1],
                    [n |-> cl.clicks + 1, id |-> id])

OverlayInit ==
    /\ FnIdle
    /\ npc = "idle" /\ nameIn = [explicit |-> <<>>, props |-> <<>>] /\ nameOut = NoNames
    /\ file = NoFile /\ exported = <<>> /\ reqs = 0 /\ last = NoCall
    /\ options = NoOptions
    /\ runtime = NoRuntime /\ host = NoHost
    /\ client = [on |-> TRUE, isDockActive |-> FALSE, isOptionHeld |-> FALSE,
                 isHighlightAllActive |-> FALSE, sticky |-> FALSE,
                 selectedComponentId |-> NoSelection, clicks |-> 0,
                 pending |-> {}, menus |-> {}, contextMenuElement |-> NoElement,
                 currentHandlers |-> FALSE, listeners |-> 0, storyFileCache |-> {}]

OverlayRest ==
    <<npc, nameIn, nameOut, file, exported, reqs, last, options, fpc, args, result,
      runtime, host>>

\* enableHighlightMode (348-351)
ActivateDock ==
    /\ client.on /\ ~ client.isDockActive
    /\ client' = [client EXCEPT !.isDockActive = TRUE]
    /\ UNCHANGED OverlayRest

\* disableHighlightMode (356-362)
DeactivateDock ==
    /\ client.on /\ client.isDockActive
    /\ client' = [disableOverlay(clearSelection(
                      [client EXCEPT !.isDockActive = FALSE, !.isOptionHeld = FALSE]))
                  EXCEPT !.sticky = FALSE]
    /\ UNCHANGED OverlayRest

\* handleKeyDown with the Alt key (435-438)
KeyDownAlt ==
    /\ client.on
    /\ client' = IF client.isDockActive /\ ~ client.isOptionHeld
                 THEN setHighlightAll([client EXCEPT !.isOptionHeld = TRUE], TRUE)
                 ELSE client
    /\ UNCHANGED OverlayRest

\* handleKeyDown with Shift+H (441-445); sticky records that the toggle
\* switched highlight-all on
KeyDownShiftH ==
    /\ client.on
    /\ client' = IF client.isDockActive
                 THEN [setHighlightAll(client, ~ client.isHighlightAllActive)
                       EXCEPT !.sticky = ~ client.isHighlightAllActive]
                 ELSE client
    /\ UNCHANGED OverlayRest

\* handleKeyUp with the Alt key (454-460)
KeyUpAlt ==
    /\ client.on
    /\ client' = IF client.isOptionHeld
                 THEN setHighlightAll([client EXCEPT !.isOptionHeld = FALSE], FALSE)
                 ELSE client
    /\ UNCHANGED OverlayRest

\* the Escape key: handleKeyDown (448-450) and the menu's Escape handlers
\* (1067-1074)
KeyDownEscape ==
    /\ client.on
    /\ client' = IF \/ client.isDockActive /\ client.selectedComponentId # NoSelection
                    \/ client.listeners > 0
                 THEN clearSelection(client)
                 ELSE client
    /\ UNCHANGED OverlayRest

\* a click on the highlight of an instance (800-804, 827-830)
ClickHighlight(id) ==
    /\ client.on /\ client.isDockActive /\ client.clicks < MaxClicks
    /\ client' = selectComponent(client, id)
    /\ UNCHANGED OverlayRest

\* a click outside the menu: the close handlers (1057-1064); without an element
\* the handler fails on its first line
ClickOutside ==
    /\ client.on /\ client.listeners > 0
    /\ client' = IF client.contextMenuElement # NoElement
                 THEN clearSelection(client)
                 ELSE client
    /\ UNCHANGED OverlayRest

\* the story-file check of a waiting showContextMenu returns (851)
CheckStoryFileReturns ==
    /\ client.on
    /\ \E call \in client.pending :
           client' = attachContextMenu([client EXCEPT !.pending = @ \ {call}], call)
    /\ UNCHANGED OverlayRest

OverlayNext ==
    \/ ActivateDock
    \/ DeactivateDock
    \/ KeyDownAlt
    \/ KeyDownShiftH
    \/ KeyUpAlt
    \/ KeyDownEscape
    \/ \E id \in Instances : ClickHighlight(id)
    \/ ClickOutside
    \/ CheckStoryFileReturns

SpecOverlay == OverlayInit /\ [][OverlayNext]_vars

\* C26: once Shift+H has switched highlight-all on it stays on across every
\* later press and release of Alt; only another Shift+H or deactivating the
\* dock switches it off.
C26_StickyHighlightAll ==
    (client.on /\ client.sticky) => client.isHighlightAllActive

\* C29: a context menu attached to the document belongs to the selected
\* component, there is never more than one, and there is none after the
\* selection was cleared or the dock was deactivated.
C29_MenuFollowsSelection ==
    client.on =>
        /\ Cardinality(client.menus) <= 1
        /\ \A m \in client.menus : m.id = client.selectedComponentId
        /\ (~ client.isDockActive => client.menus = {})

----------------------------------------------------------------------------
(* The story file after a sequence of create-story requests *)

\* the places of the story file where a top-level `export const` starts
ExportPlaces == {i \in DOMAIN file.text : ExportNameAt(file.text, i) # <<>>}

\* C27: starting without a story file, after any sequence of create-story
\* requests the `export const` names of the file are pairwise distinct and
\* there is one export for each handled request.
C27_OneDistinctExportPerRequest ==
    /\ Cardinality(ExportPlaces) = reqs
    /\ Cardinality({ExportNameAt(file.text, i) : i \in ExportPlaces}) = reqs

\* two requests with the same name were handled
C27_Witness ==
    /\ reqs >= 2 /\ file.exists
    /\ exported[1] = PName /\ exported[2] = PName \o <<"2">>
    /\ {PName, PName \o <<"2">>} \subseteq {ExportNameAt(file.text, i) : i \in ExportPlaces}

----------------------------------------------------------------------------
(* generateStory for a new story file, on names close to the component's *)

ClashChars == {"i", "b", "k", " "}
ClashNames == SeqsUpTo(ClashChars, MaxNameLen)
ClashProps ==
    {<<>>,
     <<Entry("variant", StrV(<<"i", "b">>))>>,
     <<Entry("icon", JsxV(IconJsx, <<IName>>))>>}

ClashInit ==
    /\ fpc = "in"
    /\ args \in [fn : {"generateStory"}, storyName : ClashNames, props : ClashProps,
                 isDefaultExport : BOOLEAN]
    /\ result = NoResult
    /\ npc = "idle" /\ nameIn = [explicit |-> <<>>, props |-> <<>>] /\ nameOut = NoNames
    /\ file = NoFile /\ exported = <<>> /\ reqs = 0 /\ last = NoCall
    /\ options = NoOptions
    /\ PageIdle

\* generateStory (37-114) without existing content
GenerateNewStory ==
    /\ fpc = "in"
    /\ args.fn = "generateStory"
    /\ fpc' = "out"
    /\ result' = [fn |-> args.fn,
                  story |-> generateStory(
                      [meta |-> [componentName |-> Target, filePath |-> TargetFile,
                                 isDefaultExport |-> args.isDefaultExport],
                       props |-> args.props,
                       registry |-> Registry,
                       storyName |-> args.storyName,
                       existingContent |-> <<>>])]
    /\ UNCHANGED <<args, npc, nameIn, nameOut, file, exported, reqs, last, options,
                   runtime, host, client>>

ClashNext == GenerateNewStory

SpecClash == ClashInit /\ [][ClashNext]_vars

\* the part of an import statement that binds names: what stands before `from`
ImportClause(line) == SubSeq(line, 1, IndexOf(line, <<"from">>) - 1)

\* name is imported by the story file t, or declared by its `const meta` and
\* `type Story` statements
ImportsOrDeclares(t, name) ==
    \/ \E i \in DOMAIN ImportLines(t) : HasWord(ImportClause(ImportLines(t)[i]), name)
    \/ name \in {<<"meta">>, StoryName}

\* C28: the name of the generated story export never equals the name of the
\* target component or of any other identifier the story file imports or
\* declares.
C28_ExportNameIsFree ==
    (fpc = "out" /\ result.fn = "generateStory") =>
        ~ ImportsOrDeclares(result.story.content, NewExportName(result.story.content))

----------------------------------------------------------------------------
(* The outer loops of the two callback scanners, pass by pass.  A position *)
(* p of the model is the item jsxSource[p - 1] of the code.                *)

MaxAttrs == 2

\* `fn()` character by character, so that lengths are those of the strings
FnCallChars == <<"f", "n", "(", ")">>

\* the pass ended the loop without a next position
Exit(t, p, kind) == [text |-> t, pos |-> p, exit |-> TRUE, kind |-> kind]
Continue(t, p, kind) == [text |-> t, pos |-> p, exit |-> FALSE, kind |-> kind]

\* one pass of the loop of hasFunctionHandlersInJSX (351-417)
hasPass(t, p) ==
    IF p > Len(t) \/ PropStarts(t, p) = {} THEN Exit(t, p, "end")
    ELSE LET propStart == Min(PropStarts(t, p))
             braceStart == SkipWord(t, propStart) + 1
             braceEnd == ScanBrace(t, braceStart, 0, FALSE, "")
         IN  IF braceEnd = 0 THEN Continue(t, braceStart + 1, "unmatched")
             ELSE IF isFunctionHandler(Trim(SubSeq(t, braceStart + 1, braceEnd - 1)))
                  THEN Exit(t, p, "found")
                  ELSE Continue(t, braceEnd + 1, "kept")

\* a pass that goes on at the start of the attribute it has replaced
replacePassRescan(t, p) ==
    IF p > Len(t) \/ PropStarts(t, p) = {} THEN Exit(t, p, "end")
    ELSE LET propStart == Min(PropStarts(t, p))
             braceStart == SkipWord(t, propStart) + 1
             propName == SubSeq(t, propStart, braceStart - 2)
             braceEnd == ScanBrace(t, braceStart, 0, FALSE, "")
             mock == propName \o <<"=", "{">> \o FnCallChars \o <<"}">>
         IN  IF braceEnd = 0 THEN Continue(t, braceStart + 1, "unmatched")
             ELSE IF isFunctionHandler(Trim(SubSeq(t, braceStart + 1, braceEnd - 1)))
                  THEN Continue(SubSeq(t, 1, propStart - 1) \o mock \o SliceFrom(t, braceEnd),
                                propStart, "replaced")
                  ELSE Continue(t, braceEnd + 1, "kept")

\* one pass of the loop of replaceFunctionHandlersInJSX (431-500)
replacePass(t, p) ==
    IF p > Len(t) \/ PropStarts(t, p) = {} THEN Exit(t, p, "end")
    ELSE LET propStart == Min(PropStarts(t, p))
             braceStart == SkipWord(t, propStart) + 1
             propName == SubSeq(t, propStart, braceStart - 2)
             braceEnd == ScanBrace(t, braceStart, 0, FALSE, "")
             mock == propName \o <<"=", "{">> \o FnCallChars \o <<"}">>
         IN  IF braceEnd = 0 THEN Continue(t, braceStart + 1, "unmatched")
             ELSE IF isFunctionHandler(Trim(SubSeq(t, braceStart + 1, braceEnd - 1)))
                  THEN Continue(SubSeq(t, 1, propStart - 1) \o mock \o SliceFrom(t, braceEnd),
                                propStart + Len(mock), "replaced")
                  ELSE Continue(t, braceEnd + 1, "kept")

\* attributes and fragments of attributes: a call and an arrow function (the
\* replacement is longer than the first and shorter than the second), a
\* number, a brace that is never closed, a quote that is never closed, a
\* closing brace inside a literal, and a blank
AttrPool ==
    {<<"a", "=", "{", "f", "(", ")", "}">>,
     <<"b", "=", "{", "(", ")", "=", ">", "x", "+", "y", "}">>,
     <<"c", "=", "{", "1", "}">>,
     <<"d", "=", "{", "{", "}">>,
     <<"e", "=", "{", "'", "x">>,
     <<"g", "=", "{", "f", "(", "'", "}", "'", ")", "}">>,
     <<" ">>}
PassSources == {Flatten(as) : as \in SeqsUpTo(AttrPool, MaxAttrs)}
PassFunctions == {"hasFunctionHandlersInJSX", "replaceFunctionHandlersInJSX"}

PassInit ==
    /\ fpc = "in"
    /\ args \in [fn : PassFunctions, jsxSource : PassSources]
    /\ result = NoResult
    /\ npc = "idle" /\ nameIn = [explicit |-> <<>>, props |-> <<>>] /\ nameOut = NoNames
    /\ file = NoFile /\ exported = <<>> /\ reqs = 0 /\ last = NoCall
    /\ options = NoOptions
    /\ PageIdle

PassRest ==
    <<args, npc, nameIn, nameOut, file, exported, reqs, last, options, runtime, host, client>>

\* the function is entered: pos = 0 (348, 428)
EnterScanner ==
    /\ fpc = "in" /\ args.fn \in PassFunctions
    /\ fpc' = "loop"
    /\ result' = [fn |-> args.fn, text |-> args.jsxSource, pos |-> 1, kinds |-> {}]
    /\ UNCHANGED PassRest

\* one pass of the while loop, or its end
LoopPass ==
    /\ fpc = "loop"
    /\ LET r == IF result.fn = "replaceFunctionHandlersInJSX"
                THEN replacePass(result.text, result.pos)
                ELSE hasPass(result.text, result.pos)
       IN  /\ result' = [result EXCEPT !.text = r.text, !.pos = r.pos,
                                       !.kinds = @ \cup {r.kind}]
           /\ fpc' = IF r.exit THEN "out" ELSE "loop"
    /\ UNCHANGED PassRest

PassNext == EnterScanner \/ LoopPass

SpecPass == PassInit /\ [][PassNext]_vars

\* C30: every pass of the outer loop of either scanner that does not end the
\* loop moves the scan position forward and leaves less text behind it to scan,
\* so the scanners terminate, also on unbalanced braces, on a quote that is
\* never closed, and when a replacement makes the text shorter or longer.
C30_EachPassAdvances ==
    [][(fpc = "loop" /\ fpc' = "loop") =>
          /\ result'.pos > result.pos
          /\ Len(result'.text) - result'.pos < Len(result.text) - result.pos]_vars

\* a scan that met a brace without match and replaced a call by a longer text
\* has ended
C30_Witness ==
    /\ fpc = "out" /\ result.fn = "replaceFunctionHandlersInJSX"
    /\ {"unmatched", "replaced", "end"} \subseteq result.kinds
    /\ Len(result.text) > Len(args.jsxSource)

====
